---------------------------- MODULE Spec2Model ----------------------------
(***************************************************************************)
(* A model of tgterm's request orchestration layer (src/bot.c): the owner  *)
(* pinning, the TOTP gate with its session timeout, and the command        *)
(* router, over the key-value store and the window backend.                *)
(*                                                                         *)
(* C strings are sequences of byte values (1..255) without the final NUL;  *)
(* NULL (a missing store value) is the model value Null.                   *)
(***************************************************************************)
EXTENDS Integers, Sequences, FiniteSets, TLC

(***************************************************************************)
(* Bounds of the model (not program constants).                            *)
(***************************************************************************)
\* How many times the clock may advance in one behaviour.
MaxTicks == 2
\* The counter of owner-key writes stops counting here.
MaxOwnerWrites == 2
\* How many requests the transport delivers at once, each on its own thread.
MaxThreads == 2
\* How many glyphs, escapes and characters the texts given to the keystroke
\* encoder are made of, at most.
MaxKeyTokens == 3
\* How many authentication attempts of one behaviour are remembered, and
\* made.
MaxAttempts == 3

(***************************************************************************)
(* Program constants.                                                      *)
(***************************************************************************)
\* static int OtpTimeout = 300;
DefaultOtpTimeout == 300
\* if (secs < 30) secs = 30;  and  t >= 30 in totp_setup
OtpTimeoutMin == 30
\* if (secs > 28800) secs = 28800;  and  t <= 28800 in totp_setup
OtpTimeoutMax == 28800
\* uint64_t now = (uint64_t)time(NULL) / 30;
TimeStepSeconds == 30
\* return code % 1000000;
CodeModulus == 1000000
\* unsigned char secret[20];
SecretLen == 20
\* int is_otp = (strlen(req) == 6);
OtpDigits == 6
\* strncasecmp(req, ".otptimeout", 11)
OtpTimeoutCmdLen == 11

\* NULL: what kvGet returns for a missing key.  No C string is <<-1>>.
Null == <<-1>>

\* INT_MAX and INT_MIN of a 32-bit int.
IntMax == 2147483647
IntMin == (-2147483647) - 1

(***************************************************************************)
(* The C library, as far as the program uses it.                           *)
(***************************************************************************)
\* s[i] of a NUL-terminated string, 1-based: the terminator reads as 0.
At(s, i) == IF i >= 1 /\ i <= Len(s) THEN s[i] ELSE 0

\* isdigit() on an unsigned char.
IsDigit(c) == c >= 48 /\ c <= 57

\* isspace() in the C locale: space, \t, \n, \v, \f, \r.
IsSpace(c) == c \in {32, 9, 10, 11, 12, 13}

\* tolower() in the C locale.
ToLower(c) == IF c >= 65 /\ c <= 90 THEN c + 32 ELSE c

\* strlen().
Strlen(s) == Len(s)

\* strncasecmp(a, b, n) == 0: the first n bytes agree ignoring case, or both
\* strings end, in agreement, before n bytes.
RECURSIVE CaseEqFrom(_, _, _, _)
CaseEqFrom(a, b, i, n) ==
  IF i > n THEN TRUE
  ELSE IF ToLower(At(a, i)) # ToLower(At(b, i)) THEN FALSE
  ELSE IF At(a, i) = 0 THEN TRUE
  ELSE CaseEqFrom(a, b, i + 1, n)

StrncasecmpEq(a, b, n) == CaseEqFrom(a, b, 1, n)

\* strcasecmp(a, b) == 0.
StrcasecmpEq(a, b) == CaseEqFrom(a, b, 1, Len(a) + Len(b) + 1)

\* The index of the first byte at or after i that is not white space.
RECURSIVE SkipSpace(_, _)
SkipSpace(s, i) == IF IsSpace(At(s, i)) THEN SkipSpace(s, i + 1) ELSE i

\* The digits of a decimal number starting at s[i], accumulated as strtol
\* does.  The result is [n, ovf, hi, lo]: n is minus the magnitude while it
\* fits a 32-bit int (ovf = FALSE); hi and lo are the two 16-bit halves of
\* the magnitude modulo 2^32.
RECURSIVE DigitsFrom(_, _, _)
DigitsFrom(s, i, acc) ==
  IF ~IsDigit(At(s, i)) THEN acc
  ELSE LET d    == At(s, i) - 48
           over == acc.ovf \/ acc.n < -214748364
                           \/ (acc.n = -214748364 /\ d > 8)
           lo10 == acc.lo * 10 + d
           hi10 == acc.hi * 10 + (lo10 \div 65536)
       IN  DigitsFrom(s, i + 1,
                      [n   |-> IF over THEN 0 ELSE acc.n * 10 - d,
                       ovf |-> over,
                       hi  |-> hi10 % 65536,
                       lo  |-> lo10 % 65536])

\* A 32-bit pattern, given as two 16-bit halves, read as a signed int.
Int32(hi, lo) == IF hi >= 32768 THEN (hi - 65536) * 65536 + lo
                 ELSE hi * 65536 + lo

\* The two's complement negation of a 32-bit pattern, read as a signed int.
NegInt32(hi, lo) ==
  IF hi = 0 /\ lo = 0 THEN 0
  ELSE Int32((65535 - hi + (IF lo = 0 THEN 1 ELSE 0)) % 65536,
             (65536 - lo) % 65536)

\* atoi(s).  A value that no int holds is undefined behaviour: ub chooses
\* what the C library makes of it, "wrap" (the low 32 bits of strtol's long,
\* as glibc, musl and macOS libc return for a number below 2^63) or "sat"
\* (INT_MAX or INT_MIN).
AtoiNormal(s, ub) ==
  LET i   == SkipSpace(s, 1)
      neg == At(s, i) = 45
      j   == IF At(s, i) \in {43, 45} THEN i + 1 ELSE i
      r   == DigitsFrom(s, j, [n |-> 0, ovf |-> FALSE, hi |-> 0, lo |-> 0])
      fits == ~r.ovf /\ (neg \/ r.n # IntMin)
  IN  IF fits THEN (IF neg THEN r.n ELSE 0 - r.n)
      ELSE IF ub = "sat" THEN (IF neg THEN IntMin ELSE IntMax)
      ELSE IF neg THEN NegInt32(r.hi, r.lo) ELSE Int32(r.hi, r.lo)

Atoi(s, ub) == AtoiNormal(s, ub)

\* strtoll(s, NULL, 10), for the numbers a 32-bit int holds (the identifiers
\* of the model).
Strtoll(s) == AtoiNormal(s, "sat")

\* The decimal digits of n >= 0, as printf's %d writes them.
RECURSIVE DecDigits(_)
DecDigits(n) == IF n < 10 THEN <<48 + n>>
                ELSE Append(DecDigits(n \div 10), 48 + (n % 10))

\* snprintf(buf, size, "%d" or "%lld", n), the buffer being large enough.
FormatInt(n) == IF n < 0 THEN <<45>> \o DecDigits(0 - n) ELSE DecDigits(n)


(***************************************************************************)
(* TOTP (src/bot.c, "TOTP Authentication").                                *)
(***************************************************************************)
\* The value of a hexadecimal digit, or -1.
HexVal(c) == IF IsDigit(c) THEN c - 48
             ELSE IF c >= 97 /\ c <= 102 THEN c - 87
             ELSE IF c >= 65 /\ c <= 70 THEN c - 55
             ELSE -1

\* One digit as sprintf's %x writes it.
HexChar(v) == IF v < 10 THEN 48 + v ELSE 87 + v

\* bytes_to_hex(data, len): two lower-case digits per byte (len is 20, under
\* the 63 bytes the loop stops at).
RECURSIVE bytes_to_hex(_)
bytes_to_hex(data) ==
  IF data = <<>> THEN <<>>
  ELSE <<HexChar(Head(data) \div 16), HexChar(Head(data) % 16)>>
         \o bytes_to_hex(Tail(data))

\* hex_to_bytes(hex, out, max): while two characters are left and fewer than
\* max bytes are written, sscanf("%2x") reads one byte; the loop stops at
\* the first pair that does not start with a hexadecimal digit.
RECURSIVE HexFrom(_, _, _, _)
HexFrom(hex, i, out, max) ==
  IF At(hex, i) = 0 \/ At(hex, i + 1) = 0 \/ Len(out) >= max THEN out
  ELSE IF HexVal(At(hex, i)) < 0 THEN out
  ELSE LET byte == IF HexVal(At(hex, i + 1)) < 0 THEN HexVal(At(hex, i))
                   ELSE HexVal(At(hex, i)) * 16 + HexVal(At(hex, i + 1))
       IN  HexFrom(hex, i + 2, Append(out, byte), max)

hex_to_bytes(hex, max) == HexFrom(hex, 1, <<>>, max)

\* The 8 bytes of the time step, most significant first:
\*   for (i = 7; i >= 0; i--) { msg[i] = time_step & 0xff; time_step >>= 8; }
\* (a step of the model is below 2^31, so the upper four bytes are 0).
StepMsg(time_step) ==
  <<0, 0, 0, 0,
    (time_step \div 16777216) % 256, (time_step \div 65536) % 256,
    (time_step \div 256) % 256, time_step % 256>>

RECURSIVE SumBytes(_)
SumBytes(s) == IF s = <<>> THEN 0 ELSE Head(s) + SumBytes(Tail(s))

\* hmac_sha1(key, klen, msg, 8, hash) of sha1.c, which is not part of the
\* sources: a stand-in that maps a 20-byte key and an 8-byte message to 20
\* bytes.  Nothing the model checks depends on which function it is.
hmac_sha1(key, msg) ==
  [i \in 1..20 |->
     (key[i] * 31 + msg[8] * (i + 6) + msg[7] * 3 + SumBytes(msg) * i + i * 17)
       % 256]

\* totp_code(secret, 20, time_step): dynamic truncation of the HMAC.
\*   offset = hash[19] & 0x0f;
\*   code = (hash[offset] & 0x7f) << 24 | hash[offset+1] << 16
\*        | hash[offset+2] << 8 | hash[offset+3];   return code % 1000000;
totp_code(secret, time_step) ==
  LET hash   == hmac_sha1(secret, StepMsg(time_step))
      offset == hash[20] % 16
      code   == (hash[offset + 1] % 128) * 16777216 + hash[offset + 2] * 65536
                + hash[offset + 3] * 256 + hash[offset + 4]
  IN  code % CodeModulus

\* Variant: the previous time step is not tried.
VerifyStepsAhead(step) == {step + i : i \in 0..1}

\* The time steps totp_verify tries:  for (int i = -1; i <= 1; i++) now + i.
VerifySteps(step) == {step + i : i \in -1..1}

\* Variant: every code is accepted.
totp_verify_any(db, code_str, t) == TRUE

\* totp_verify(db, code_str) at clock time t.
totp_verify(db, code_str, t) ==
  LET hex == db.totp_secret
  IN  IF hex = Null THEN FALSE
      ELSE LET secret == hex_to_bytes(hex, SecretLen)
           IN  IF Len(secret) # SecretLen THEN FALSE
               ELSE LET step       == t \div TimeStepSeconds
                        input_code == Atoi(code_str, "wrap")
                    IN  \E s \in VerifySteps(step) :
                          totp_code(secret, s) = input_code


(***************************************************************************)
(* The environment: senders, window descriptors, what is on screen, the    *)
(* secrets /dev/urandom may give, the stores the process may start from.   *)
(***************************************************************************)
\* The clock when the process starts (seconds since the epoch).
StartTime == 1700000000

\* WinInfo descriptors.  W1 and W2 are windows of one process.
W1 == [window_id |-> 11, pid |-> 100, owner |-> "xterm", title |-> "zsh"]
W2 == [window_id |-> 12, pid |-> 100, owner |-> "xterm", title |-> ""]
W3 == [window_id |-> 13, pid |-> 200, owner |-> "kitty", title |-> "vim"]

\* The window lists the backend may report, in its order.
Screens == {<<>>, <<W1>>}

\* ... with a sibling window of the same process, and a second process.
WinScreens == {<<>>, <<W1>>, <<W2>>, <<W1, W3>>}

\* ... with two processes, for the texts that are typed into a window.
TypingScreens == {<<W1>>, <<W3, W1>>}

\* The glyphs of the keystroke encoder, in UTF-8: the red heart without and
\* with its variation selector, the blue, green, yellow, orange and purple
\* hearts.
RedHeart == <<226, 157, 164>>
RedHeartVS == <<226, 157, 164, 239, 184, 143>>
BlueHeart == <<240, 159, 146, 153>>
GreenHeart == <<240, 159, 146, 154>>
YellowHeart == <<240, 159, 146, 155>>
OrangeHeart == <<240, 159, 167, 161>>
PurpleHeart == <<240, 159, 146, 156>>

\* What a text is made of: the glyphs, the three escapes \n, \t and \\, a
\* backslash, and the letter a.
KeyTokens ==
  {RedHeart, RedHeartVS, BlueHeart, GreenHeart, YellowHeart, OrangeHeart,
   <<92, 110>>, <<92, 116>>, <<92, 92>>, <<92>>, <<97>>}

\* The texts of at most n such pieces.
RECURSIVE TokenTexts(_)
TokenTexts(n) ==
  IF n = 0 THEN {<<>>}
  ELSE LET shorter == TokenTexts(n - 1)
       IN  shorter \cup {s \o t : s \in shorter, t \in KeyTokens}

\* The texts given to the encoder: those, as they are and with a purple
\* heart at the end.
KeyTexts ==
  LET ts == TokenTexts(MaxKeyTokens)
  IN  ts \cup {s \o PurpleHeart : s \in ts}

\* 20-byte secrets.
S1 == [i \in 1..20 |-> (i * 37 + 11) % 256]
S2 == [i \in 1..20 |-> (i * 101 + 200) % 256]

\* What the store holds of the secret when the process starts, and what
\* /dev/urandom gives when a secret is generated (Null: the read fails).
StoredSecret == bytes_to_hex(S1)
RandomSecrets == {S2, Null}

(***************************************************************************)
(* State.                                                                  *)
(***************************************************************************)
VARIABLES
  scope,          \* which inputs the environment draws from (it never changes)
  phase,          \* "boot" before main() has run totp_setup, "run" while
                  \* the bot serves requests, "exit" after exit(1)
  db,             \* the key-value store: owner_id, totp_secret, otp_timeout
  WeakSecurity,   \* static int WeakSecurity
  Authenticated,  \* static int Authenticated
  LastActivity,   \* static time_t LastActivity
  OtpTimeout,     \* static int OtpTimeout
  Connected,      \* static int Connected
  ConnectedWid,   \* static PlatWinID ConnectedWid
  ConnectedPid,   \* static pid_t ConnectedPid
  ConnectedOwner, \* static char ConnectedOwner[128]
  ConnectedTitle, \* static char ConnectedTitle[256]
  WindowList,     \* static WinInfo *WindowList, with WindowCount its length
  now,            \* time(NULL)
  screen,         \* the windows on screen, in the backend's order
  ticks,          \* how many times the clock advanced
  last,           \* the request just handled: the request, the state it
                  \* found, and the calls it made, in order
  firstSender,    \* the sender of the first request ever handled, or -1
  ownerWrites,    \* how many times the owner key was written
  pc,             \* per thread: where it is in handle_request
  lock,           \* RequestLock: the thread that holds it, or 0
  treq,           \* per thread: its BotRequest
  towner,         \* per thread: its local variable owner_id
  calls,          \* the calls made since the lock was last acquired
  cur,            \* per thread: the globals and the calls as its own last
                  \* step left them
  typed,          \* the text given to the keystroke encoder
  sent,           \* the keys the encoder made of it, once it has run
  attempts        \* the texts sent to the closed gate so far, each with the
                  \* clock and whether the gate let it in

vars == <<scope, phase, db, WeakSecurity, Authenticated, LastActivity, OtpTimeout,
          Connected, ConnectedWid, ConnectedPid, ConnectedOwner,
          ConnectedTitle, WindowList, now, screen, ticks, last, firstSender,
          ownerWrites, pc, lock, treq, towner, calls, cur, typed, sent,
          attempts>>

\* What the threads of concurrent requests add to the state.
tvars == <<pc, lock, treq, towner, calls, cur>>

\* The input and the output of the keystroke encoder, taken alone.
kvars == <<typed, sent>>

Threads == 1..MaxThreads

\* The window lists the backend may report under the inputs of scope sc.
ScreensOf(sc) == IF sc = "windows" THEN WinScreens
                 ELSE IF sc \in {"typing", "dispatch"} THEN TypingScreens
                 ELSE IF sc = "keys" THEN {<<>>}
                 ELSE Screens

\* The program's globals and store, as one record: what a request reads and
\* writes.  ops is the list of the calls made so far by the request, and
\* owner_id its local variable.
Globals ==
  [db |-> db, Authenticated |-> Authenticated, LastActivity |-> LastActivity,
   OtpTimeout |-> OtpTimeout, Connected |-> Connected,
   ConnectedWid |-> ConnectedWid, ConnectedPid |-> ConnectedPid,
   ConnectedOwner |-> ConnectedOwner, ConnectedTitle |-> ConnectedTitle,
   WindowList |-> WindowList, screen |-> screen,
   owner_id |-> 0, ops |-> <<>>]

\* The part of m that the threads share: the globals, the store and the
\* calls made, without the screen and the local variable.
SharedOf(m) == [m EXCEPT !.screen = <<>>, !.owner_id = 0]

NoRequest ==
  [from |-> -1, is_callback |-> FALSE, request |-> <<>>, callback_data |-> "",
   callback_id |-> 0, msg_id |-> 0, target |-> -1]

\* The encoder has not run.
NotSent == [done |-> FALSE, keys |-> <<>>]

\* No request has just been handled.
Idle == [active |-> FALSE, br |-> NoRequest, weak |-> FALSE, now |-> 0,
         pre |-> <<>>, ops |-> <<>>]

\* The values of "otp_timeout" the store may hold when the process starts.
StoredTimeouts == {Null, <<50, 57>>, <<50, 56, 56, 48, 48>>, <<50, 56, 56, 48, 49>>}
                   \* NULL, "29", "28800", "28801"

\* The stores the process may start from: a fresh one, or one that holds a
\* secret and possibly a timeout.  No owner is stored yet.
FreshStore == [owner_id |-> Null, totp_secret |-> Null, otp_timeout |-> Null]
InitialStores(sc) ==
  CASE sc \in {"gate", "verify", "threads"} ->
         {FreshStore, [FreshStore EXCEPT !.totp_secret = StoredSecret]}
    [] sc \in {"owner", "windows", "typing", "keys", "dispatch", "replay"} ->
         {[FreshStore EXCEPT !.totp_secret = StoredSecret]}
    [] OTHER -> {FreshStore} \cup [owner_id : {Null}, totp_secret : {StoredSecret},
                                   otp_timeout : StoredTimeouts]

\* The state after static initialisation, before main() runs, the
\* environment drawing its inputs from the sets of scope sc.
InitScope(sc) ==
  /\ scope = sc
  /\ phase = "boot"
  /\ db \in InitialStores(sc)
  /\ WeakSecurity = FALSE
  /\ Authenticated = FALSE
  /\ LastActivity = 0
  /\ OtpTimeout = DefaultOtpTimeout
  /\ Connected = FALSE
  /\ ConnectedWid = 0
  /\ ConnectedPid = 0
  /\ ConnectedOwner = ""
  /\ ConnectedTitle = ""
  /\ WindowList = <<>>
  /\ now = StartTime
  /\ screen \in ScreensOf(sc)
  /\ ticks = 0
  /\ last = Idle
  /\ firstSender = -1
  /\ ownerWrites = 0
  /\ pc = [t \in Threads |-> "start"]
  /\ lock = 0
  /\ treq = [t \in Threads |-> NoRequest]
  /\ towner = [t \in Threads |-> 0]
  /\ calls = <<>>
  /\ cur = [t \in Threads |-> SharedOf(Globals)]
  /\ typed \in (IF sc = "keys" THEN KeyTexts ELSE {<<>>})
  /\ sent = NotSent
  /\ attempts = <<>>

Init == InitScope("gate")
InitOwner == InitScope("owner")
InitTimeout == InitScope("timeout")
InitVerify == InitScope("verify")
InitThreads == InitScope("threads")
InitWindows == InitScope("windows")
InitTyping == InitScope("typing")
InitDispatch == InitScope("dispatch")
InitReplay == InitScope("replay")
InitKeys == InitScope("keys")

(***************************************************************************)
(* main() and totp_setup().                                                *)
(***************************************************************************)
\* Variant: any stored timeout is adopted.
AnyTimeout(t) == TRUE

\* if (t >= 30 && t <= 28800) OtpTimeout = t;
TimeoutInRange(t) == t >= OtpTimeoutMin /\ t <= OtpTimeoutMax

\* The timeout totp_setup leaves in OtpTimeout when a secret exists.
LoadedTimeout(timeout_str, ub, current) ==
  IF timeout_str = Null THEN current
  ELSE LET t == Atoi(timeout_str, ub)
       IN  IF TimeoutInRange(t) THEN t ELSE current

\* main(): the flags are read, then totp_setup runs.  With --use-weak-security
\* it returns at once.  With a stored secret it adopts the stored timeout;
\* without one it reads 20 bytes of /dev/urandom and stores them in
\* hexadecimal, or exits when the read fails.
Startup ==
  /\ phase = "boot"
  /\ \E weak \in BOOLEAN, urandom \in RandomSecrets, ub \in {"wrap", "sat"} :
       /\ WeakSecurity' = weak
       /\ IF weak THEN
            /\ phase' = "run"
            /\ UNCHANGED <<db, OtpTimeout>>
          ELSE IF db.totp_secret # Null THEN
            /\ phase' = "run"
            /\ OtpTimeout' = LoadedTimeout(db.otp_timeout, ub, OtpTimeout)
            /\ UNCHANGED db
          ELSE IF urandom = Null THEN
            /\ phase' = "exit"
            /\ UNCHANGED <<db, OtpTimeout>>
          ELSE
            /\ phase' = "run"
            /\ db' = [db EXCEPT !.totp_secret = bytes_to_hex(urandom)]
            /\ UNCHANGED OtpTimeout
  /\ UNCHANGED <<scope, Authenticated, LastActivity, Connected, ConnectedWid,
                 ConnectedPid, ConnectedOwner, ConnectedTitle, WindowList,
                 now, screen, ticks, last, firstSender, ownerWrites>>
  /\ UNCHANGED tvars
  /\ UNCHANGED kvars
  /\ UNCHANGED attempts


(***************************************************************************)
(* The calls a request makes, recorded in order in ops.  Every entry is    *)
(* [op, arg] with arg a tuple of the call's arguments.                     *)
(***************************************************************************)
Call(m, op, arg) == [m EXCEPT !.ops = Append(@, [op |-> op, arg |-> arg])]

\* The messaging gateway (botlib).
botSendMessage(m, target, text) == Call(m, "botSendMessage", <<target>> \o text)
botAnswerCallbackQuery(m, br) ==
  Call(m, "botAnswerCallbackQuery", <<br.callback_id>>)
botSendImageWithKeyboard(m, target) ==
  Call(m, "botSendImageWithKeyboard", <<target>>)
botEditMessageMedia(m, target, msg_id) ==
  Call(m, "botEditMessageMedia", <<target, msg_id>>)

\* kvSet(db, key, value, 0).
kvSetOwner(m, value) ==
  Call([m EXCEPT !.db.owner_id = value], "kvSet", <<"owner_id", value>>)
kvSetTimeout(m, value) ==
  Call([m EXCEPT !.db.otp_timeout = value], "kvSet", <<"otp_timeout", value>>)

MessagingOps == {"botSendMessage", "botAnswerCallbackQuery",
                 "botSendImageWithKeyboard", "botEditMessageMedia"}
BackendOps == {"plat_list_windows", "plat_window_exists", "plat_capture_window",
               "plat_raise_window", "plat_send_key"}

(***************************************************************************)
(* Window management (src/bot.c, "Window Management").                     *)
(***************************************************************************)
\* refresh_window_list(): the cached list becomes what the backend reports.
refresh_window_list(m) ==
  Call([m EXCEPT !.WindowList = m.screen], "plat_list_windows", <<>>)

\* plat_window_exists(&wid, pid): the window is found, or the first window
\* of the same process met while looking for it becomes the window.
RECURSIVE ScanClients(_, _, _, _, _)
ScanClients(clients, i, wid, pid, fallback) ==
  IF i > Len(clients) THEN [found |-> fallback # 0,
                            wid |-> IF fallback # 0 THEN fallback ELSE wid]
  ELSE IF clients[i].window_id = wid THEN [found |-> TRUE, wid |-> wid]
  ELSE ScanClients(clients, i + 1, wid, pid,
                   IF fallback = 0 /\ clients[i].pid = pid
                   THEN clients[i].window_id ELSE fallback)

\* Variant: the first window met takes the place of the missing one,
\* whatever its process.
plat_window_exists_any_pid(clients, wid, pid) ==
  IF \E i \in 1..Len(clients) : clients[i].window_id = wid
  THEN [found |-> TRUE, wid |-> wid]
  ELSE IF clients # <<>> THEN [found |-> TRUE, wid |-> clients[1].window_id]
  ELSE [found |-> FALSE, wid |-> wid]

\* Variant: the window is always reported to be there.
plat_window_exists_always(clients, wid, pid) == [found |-> TRUE, wid |-> wid]


plat_window_exists(clients, wid, pid) == ScanClients(clients, 1, wid, pid, 0)

\* connected_window_exists(): [m, found].
connected_window_exists(m) ==
  IF ~m.Connected THEN [m |-> m, found |-> FALSE]
  ELSE LET r == plat_window_exists(m.screen, m.ConnectedWid, m.ConnectedPid)
       IN  [m |-> Call([m EXCEPT !.ConnectedWid = r.wid],
                       "plat_window_exists", <<m.ConnectedWid, r.found>>),
            found |-> r.found]

\* Variant: only the flag is cleared.
disconnect_flag_only(m) == [m EXCEPT !.Connected = FALSE]

\* Variant: nothing is cleared.
disconnect_nothing(m) == m

\* disconnect().
disconnect(m) ==
  [m EXCEPT !.Connected = FALSE, !.ConnectedWid = 0, !.ConnectedPid = 0,
            !.ConnectedOwner = "", !.ConnectedTitle = ""]

\* capture_connected_window(path): [m, ok].  The capture of a window that is
\* on screen succeeds or fails as the backend decides (cap).
capture_connected_window(m, cap) ==
  IF ~m.Connected THEN [m |-> m, ok |-> FALSE]
  ELSE LET ok == cap /\ \E i \in 1..Len(m.screen) :
                          m.screen[i].window_id = m.ConnectedWid
       IN  [m |-> Call(m, "plat_capture_window", <<m.ConnectedWid, ok>>),
            ok |-> ok]

\* Variant: the image is sent whether or not the capture succeeded.
send_screenshot_always(m, chat_id, cap) ==
  botSendImageWithKeyboard(capture_connected_window(m, cap).m, chat_id)

\* send_screenshot(chat_id).
send_screenshot(m, chat_id, cap) ==
  LET c == capture_connected_window(m, cap)
  IN  IF ~c.ok THEN c.m ELSE botSendImageWithKeyboard(c.m, chat_id)

\* Variant: the capture is sent as a new image, and no message is edited.
refresh_screenshot_new_image(m, chat_id, msg_id, cap) ==
  send_screenshot(m, chat_id, cap)

\* refresh_screenshot(chat_id, msg_id).
refresh_screenshot(m, chat_id, msg_id, cap) ==
  LET c == capture_connected_window(m, cap)
  IN  IF ~c.ok THEN c.m ELSE botEditMessageMedia(c.m, chat_id, msg_id)

\* Variant: the listing is built from the cached list, without a refresh.
build_list_message_cached(m) ==
  LET n == Len(m.WindowList)
  IN  [m |-> m,
       msg |-> IF n = 0 THEN <<"No terminal windows found.">>
               ELSE <<"Terminal windows:",
                      [i \in 1..n |-> <<i, m.WindowList[i].window_id,
                                        m.WindowList[i].owner,
                                        m.WindowList[i].title>>]>>]

\* build_list_message(): [m, msg].
build_list_message(m) ==
  LET m1 == refresh_window_list(m)
      n  == Len(m1.WindowList)
  IN  [m |-> m1,
       msg |-> IF n = 0 THEN <<"No terminal windows found.">>
               ELSE <<"Terminal windows:",
                      [i \in 1..n |-> <<i, m1.WindowList[i].window_id,
                                        m1.WindowList[i].owner,
                                        m1.WindowList[i].title>>]>>]


(***************************************************************************)
(* Keystrokes (src/bot.c, "UTF-8 Emoji Parsing" and "Keystroke Sending").  *)
(***************************************************************************)
\* Modifier flags and special keys of platform.h.
MOD_CTRL == 1
MOD_ALT == 2
MOD_CMD == 4
PLAT_KEY_CHAR == 0
PLAT_KEY_RETURN == 1
PLAT_KEY_TAB == 2
PLAT_KEY_ESCAPE == 3

\* mods | flag, for a one-bit flag.
BitOr(mods, flag) == IF (mods \div flag) % 2 = 1 THEN mods ELSE mods + flag

\* Whether the bytes of pat stand at p[i..], within remaining bytes.
MatchAt(p, i, remaining, pat) ==
  /\ remaining >= Len(pat)
  /\ \A k \in 1..Len(pat) : At(p, i + k - 1) = pat[k]

\* match_red_heart: E2 9D A4, optionally followed by EF B8 8F.
match_red_heart(p, i, remaining) ==
  IF MatchAt(p, i, remaining, <<226, 157, 164>>)
  THEN (IF MatchAt(p, i, remaining, <<226, 157, 164, 239, 184, 143>>)
        THEN 6 ELSE 3)
  ELSE 0

\* match_colored_heart: F0 9F 92 99 / 9A / 9B; [consumed, heart].
match_colored_heart(p, i, remaining) ==
  IF MatchAt(p, i, remaining, <<240, 159, 146, 153>>)
    THEN [consumed |-> 4, heart |-> "B"]
  ELSE IF MatchAt(p, i, remaining, <<240, 159, 146, 154>>)
    THEN [consumed |-> 4, heart |-> "G"]
  ELSE IF MatchAt(p, i, remaining, <<240, 159, 146, 155>>)
    THEN [consumed |-> 4, heart |-> "Y"]
  ELSE [consumed |-> 0, heart |-> ""]

\* match_orange_heart: F0 9F A7 A1.
match_orange_heart(p, i, remaining) ==
  IF MatchAt(p, i, remaining, <<240, 159, 167, 161>>) THEN 4 ELSE 0

\* match_purple_heart: F0 9F 92 9C.
match_purple_heart(p, i, remaining) ==
  IF MatchAt(p, i, remaining, <<240, 159, 146, 156>>) THEN 4 ELSE 0

\* ends_with_purple_heart(text).
ends_with_purple_heart(text) ==
  Len(text) >= 4 /\ match_purple_heart(text, Len(text) - 3, 4) > 0

\* Variant: the pending modifiers are kept after a key.
EmitKeepsMods(k, special, ch, mods, modified, nl) ==
  [k EXCEPT !.keys = Append(@, [special |-> special, ch |-> ch, mods |-> mods]),
            !.keycount = @ + 1,
            !.had_mods = @ \/ modified,
            !.last_was_nl = nl]

\* One plat_send_key(pid, special, ch, mods) of the scan: the key is
\* recorded, keycount grows, and the pending modifiers are cleared.
Emit(k, special, ch, mods, modified, nl) ==
  [k EXCEPT !.keys = Append(@, [special |-> special, ch |-> ch, mods |-> mods]),
            !.keycount = @ + 1,
            !.had_mods = @ \/ modified,
            !.last_was_nl = nl,
            !.mods = 0]

\* Variant: a backslash with a byte after it is an escape, whatever the byte.
EscapeAtAny(p, i, len, c) == At(p, i) = 92 /\ len > 1

\* if (*p == '\\' && len > 1) { if (p[1] == c) ...
EscapeAt(p, i, len, c) == At(p, i) = 92 /\ len > 1 /\ At(p, i + 1) = c

\* The while loop of send_keys over p[i..], len bytes being left.  k holds
\* mods, keycount, had_mods, last_was_nl and the keys sent so far.
RECURSIVE ScanKeys(_, _, _, _)
ScanKeys(p, i, len, k) ==
  IF len <= 0 THEN k
  ELSE LET red    == match_red_heart(p, i, len)
           orange == match_orange_heart(p, i, len)
           col    == match_colored_heart(p, i, len)
           k0     == [k EXCEPT !.last_was_nl = FALSE]
       IN
    IF red > 0 THEN
      ScanKeys(p, i + red, len - red, [k EXCEPT !.mods = BitOr(@, MOD_CTRL)])
    ELSE IF orange > 0 THEN
      ScanKeys(p, i + orange, len - orange,
               Emit(k, PLAT_KEY_RETURN, 0, k.mods, k.mods # 0, TRUE))
    ELSE IF col.consumed > 0 THEN
      ScanKeys(p, i + col.consumed, len - col.consumed,
               IF col.heart = "Y" THEN Emit(k, PLAT_KEY_ESCAPE, 0, 0, TRUE, FALSE)
               ELSE IF col.heart = "B" THEN [k EXCEPT !.mods = BitOr(@, MOD_ALT)]
               ELSE [k EXCEPT !.mods = BitOr(@, MOD_CMD)])
    ELSE IF EscapeAt(p, i, len, 110) THEN
      ScanKeys(p, i + 2, len - 2,
               Emit(k0, PLAT_KEY_RETURN, 0, k.mods, k.mods # 0, TRUE))
    ELSE IF EscapeAt(p, i, len, 116) THEN
      ScanKeys(p, i + 2, len - 2,
               Emit(k0, PLAT_KEY_TAB, 0, k.mods, k.mods # 0, FALSE))
    ELSE IF EscapeAt(p, i, len, 92) THEN
      ScanKeys(p, i + 2, len - 2,
               Emit(k0, PLAT_KEY_CHAR, 92, k.mods, k.mods # 0, FALSE))
    ELSE
      ScanKeys(p, i + 1, len - 1,
               Emit(k0, PLAT_KEY_CHAR, At(p, i), k.mods, k.mods # 0, FALSE))

\* The keys send_keys(text) sends, the final Return included when it is due.
KeysOf(text) ==
  LET add_newline == ~ends_with_purple_heart(text)
      len == IF ~add_newline /\ Len(text) >= 4 THEN Len(text) - 4 ELSE Len(text)
      k   == ScanKeys(text, 1, len,
                      [mods |-> 0, keycount |-> 0, had_mods |-> FALSE,
                       last_was_nl |-> FALSE, keys |-> <<>>])
  IN  IF add_newline /\ ~(k.keycount = 1 /\ k.had_mods) /\ ~k.last_was_nl
      THEN Append(k.keys, [special |-> PLAT_KEY_RETURN, ch |-> 0, mods |-> 0])
      ELSE k.keys

RECURSIVE SendAll(_, _, _)
SendAll(m, keys, i) ==
  IF i > Len(keys) THEN m
  ELSE SendAll(Call(m, "plat_send_key",
                    <<m.ConnectedPid, keys[i].special, keys[i].ch, keys[i].mods>>),
               keys, i + 1)

\* Variant: outside an authenticated session the text is typed without the
\* final Return.
send_keys_by_session(m, text) ==
  IF ~m.Connected THEN m
  ELSE SendAll(Call(m, "plat_raise_window", <<m.ConnectedPid, m.ConnectedWid>>),
               IF m.Authenticated THEN KeysOf(text)
               ELSE ScanKeys(text, 1, Len(text),
                             [mods |-> 0, keycount |-> 0, had_mods |-> FALSE,
                              last_was_nl |-> FALSE, keys |-> <<>>]).keys,
               1)

\* send_keys(text).
send_keys(m, text) ==
  IF ~m.Connected THEN m
  ELSE SendAll(Call(m, "plat_raise_window", <<m.ConnectedPid, m.ConnectedWid>>),
               KeysOf(text), 1)


(***************************************************************************)
(* handle_request (src/bot.c, "Telegram Bot Callbacks").                   *)
(***************************************************************************)
DotList == <<46, 108, 105, 115, 116>>                               \* ".list"
DotHelp == <<46, 104, 101, 108, 112>>                               \* ".help"
DotOtpTimeout == <<46, 111, 116, 112, 116, 105, 109, 101, 111, 117, 116>>
                                                              \* ".otptimeout"
REFRESH_DATA == "refresh"

\* Lines 465-479: the stored owner is read; when there is none, or it reads
\* as 0, the sender is stored as the owner.
PinOwner(m, br) ==
  LET owner_str == m.db.owner_id
      owner_id  == IF owner_str # Null THEN Strtoll(owner_str) ELSE 0
  IN  IF owner_id = 0
      THEN [kvSetOwner(m, FormatInt(br.from)) EXCEPT !.owner_id = br.from]
      ELSE [m EXCEPT !.owner_id = owner_id]

\* Variant: nobody is filtered out.
FromAnyone(br, owner_id) == TRUE

\* Line 481, negated: the request is the owner's.
FromOwner(br, owner_id) == br.from = owner_id

\* Variant: a session never expires.
NeverExpired(t, last_activity, timeout) == FALSE

\* time(NULL) - LastActivity > OtpTimeout
SessionExpired(t, last_activity, timeout) == t - last_activity > timeout

\* Line 487: the request must authenticate.
NeedsOtp(m, t) ==
  ~m.Authenticated \/ SessionExpired(t, m.LastActivity, m.OtpTimeout)

\* Lines 494-497: the text is six characters, all digits.
IsOtp(req) ==
  Strlen(req) = OtpDigits /\ \A i \in 1..OtpDigits : IsDigit(At(req, i))

\* Variant: the time of the request is not recorded.
StampNothing(m, t) == m

\* Lines 500 and 507: LastActivity = time(NULL).
Stamp(m, t) == [m EXCEPT !.LastActivity = t]

\* Variant: the gate lets every request through.
GateOpen(m, br, weak, t) == [m |-> m, done |-> FALSE]

\* Variant: a callback that finds the gate closed is answered and opens it.
GateCallbackOpens(m, br, weak, t) ==
  IF weak THEN [m |-> m, done |-> FALSE]
  ELSE IF NeedsOtp(m, t) THEN
    IF br.is_callback
    THEN [m |-> botAnswerCallbackQuery(Stamp([m EXCEPT !.Authenticated = TRUE], t),
                                       br),
          done |-> TRUE]
    ELSE GateOpen(m, br, weak, t)
  ELSE [m |-> Stamp(m, t), done |-> FALSE]

\* Variant: the weak-security flag is not looked at.
GateIgnoresFlag(m, br, weak, t) ==
  IF NeedsOtp(m, t) THEN
    LET m1 == [m EXCEPT !.Authenticated = FALSE]
    IN  IF br.is_callback
        THEN [m |-> botAnswerCallbackQuery(m1, br), done |-> TRUE]
        ELSE [m |-> botSendMessage(m1, br.target, <<"Enter OTP code.">>),
              done |-> TRUE]
  ELSE [m |-> Stamp(m, t), done |-> FALSE]

\* Variant: a code that was let in once is not let in again.
GateOnce(m, br, weak, t) ==
  IF weak THEN [m |-> m, done |-> FALSE]
  ELSE IF NeedsOtp(m, t) THEN
    LET m1 == [m EXCEPT !.Authenticated = FALSE]
    IN  IF br.is_callback
        THEN [m |-> botAnswerCallbackQuery(m1, br), done |-> TRUE]
        ELSE IF /\ IsOtp(br.request) /\ totp_verify(m1.db, br.request, t)
                /\ \A i \in 1..Len(attempts) :
                     ~(attempts[i].ok /\ attempts[i].text = br.request)
        THEN [m |-> botSendMessage(Stamp([m1 EXCEPT !.Authenticated = TRUE], t),
                                   br.target, <<"Authenticated.">>),
              done |-> TRUE]
        ELSE [m |-> botSendMessage(m1, br.target, <<"Enter OTP code.">>),
              done |-> TRUE]
  ELSE [m |-> Stamp(m, t), done |-> FALSE]

\* Lines 486-508, the access gate: [m, done].  done: the request ends here.
Gate(m, br, weak, t) ==
  IF weak THEN [m |-> m, done |-> FALSE]
  ELSE IF NeedsOtp(m, t) THEN
    LET m1 == [m EXCEPT !.Authenticated = FALSE]
    IN  IF br.is_callback
        THEN [m |-> botAnswerCallbackQuery(m1, br), done |-> TRUE]
        ELSE IF IsOtp(br.request) /\ totp_verify(m1.db, br.request, t)
        THEN [m |-> botSendMessage(Stamp([m1 EXCEPT !.Authenticated = TRUE], t),
                                   br.target, <<"Authenticated.">>),
              done |-> TRUE]
        ELSE [m |-> botSendMessage(m1, br.target, <<"Enter OTP code.">>),
              done |-> TRUE]
  ELSE [m |-> Stamp(m, t), done |-> FALSE]

\* Lines 539-540: the clamp of .otptimeout.
ClampTimeout(secs) ==
  IF secs < OtpTimeoutMin THEN OtpTimeoutMin
  ELSE IF secs > OtpTimeoutMax THEN OtpTimeoutMax
  ELSE secs

\* Lines 536-537: the argument of .otptimeout, leading spaces skipped.
RECURSIVE SkipBlanks(_, _)
SkipBlanks(s, i) == IF At(s, i) = 32 THEN SkipBlanks(s, i + 1) ELSE i

OtpTimeoutArg(req) ==
  LET i == SkipBlanks(req, OtpTimeoutCmdLen + 1)
  IN  SubSeq(req, i, Len(req))

\* Lines 535-549: .otptimeout.
CmdOtpTimeout(m, br, ub) ==
  LET secs == ClampTimeout(Atoi(OtpTimeoutArg(br.request), ub))
      m1   == kvSetTimeout([m EXCEPT !.OtpTimeout = secs], FormatInt(secs))
  IN  botSendMessage(m1, br.target, <<"OTP timeout set to %d seconds.", secs>>)

\* Lines 551-581: .N.
CmdConnect(m, br, e) ==
  LET n  == Atoi(SubSeq(br.request, 2, Len(br.request)), e.ub)
      m1 == refresh_window_list(m)
  IN  IF n < 1 \/ n > Len(m1.WindowList)
      THEN botSendMessage(m1, br.target, <<"Invalid window number.">>)
      ELSE LET w  == m1.WindowList[n]
               m2 == [m1 EXCEPT !.Connected = TRUE,
                                !.ConnectedWid = w.window_id,
                                !.ConnectedPid = w.pid,
                                !.ConnectedOwner = w.owner,
                                !.ConnectedTitle = w.title]
               m3 == botSendMessage(m2, br.target,
                                    <<"Connected to ", w.owner, w.title>>)
               m4 == Call(m3, "plat_raise_window", <<w.pid, w.window_id>>)
           IN  send_screenshot(m4, br.target, e.cap)

\* Variant: the screenshot is taken before the text is typed.
CmdSendKeysShotFirst(m, br, e) ==
  LET m1 == send_screenshot(m, br.target, e.cap)
      m2 == send_keys(m1, br.request)
      m3 == [m2 EXCEPT !.screen = e.screen2]
  IN  connected_window_exists(m3).m

\* Lines 601-605: the text is typed, and after sleep(2), during which the
\* screen may change to e.screen2, the window is looked up and captured.
CmdSendKeys(m, br, e) ==
  LET m1 == send_keys(m, br.request)
      m2 == [m1 EXCEPT !.screen = e.screen2]
      m3 == connected_window_exists(m2).m
  IN  send_screenshot(m3, br.target, e.cap)

\* Variant: a dot followed by a digit is no command.
DispatchDigitTyped(m, br, e) ==
  LET req == br.request
  IN  IF br.is_callback THEN
        LET m1 == botAnswerCallbackQuery(m, br)
        IN  IF br.callback_data = REFRESH_DATA /\ m1.Connected
            THEN refresh_screenshot(m1, br.target, br.msg_id, e.cap)
            ELSE m1
      ELSE IF StrcasecmpEq(req, DotList) THEN
        LET b == build_list_message(disconnect(m))
        IN  botSendMessage(b.m, br.target, b.msg)
      ELSE IF StrcasecmpEq(req, DotHelp) THEN
        botSendMessage(m, br.target, <<"Commands:">>)
      ELSE IF StrncasecmpEq(req, DotOtpTimeout, OtpTimeoutCmdLen) THEN
        CmdOtpTimeout(m, br, e.ub)
      ELSE IF At(req, 1) = 46 /\ IsDigit(At(req, 2)) /\ ~m.Connected THEN
        CmdConnect(m, br, e)
      ELSE IF ~m.Connected THEN
        LET b == build_list_message(m)
        IN  botSendMessage(b.m, br.target, b.msg)
      ELSE LET x == connected_window_exists(m)
           IN  IF ~x.found THEN
                 LET b == build_list_message(disconnect(x.m))
                 IN  botSendMessage(b.m, br.target, <<"Window closed.">> \o b.msg)
               ELSE CmdSendKeys(x.m, br, e)

\* Lines 510-605: what an accepted request does.
Dispatch(m, br, e) ==
  LET req == br.request
  IN  IF br.is_callback THEN
        LET m1 == botAnswerCallbackQuery(m, br)
        IN  IF br.callback_data = REFRESH_DATA /\ m1.Connected
            THEN refresh_screenshot(m1, br.target, br.msg_id, e.cap)
            ELSE m1
      ELSE IF StrcasecmpEq(req, DotList) THEN
        LET b == build_list_message(disconnect(m))
        IN  botSendMessage(b.m, br.target, b.msg)
      ELSE IF StrcasecmpEq(req, DotHelp) THEN
        botSendMessage(m, br.target, <<"Commands:">>)
      ELSE IF StrncasecmpEq(req, DotOtpTimeout, OtpTimeoutCmdLen) THEN
        CmdOtpTimeout(m, br, e.ub)
      ELSE IF At(req, 1) = 46 /\ IsDigit(At(req, 2)) THEN
        CmdConnect(m, br, e)
      ELSE IF ~m.Connected THEN
        LET b == build_list_message(m)
        IN  botSendMessage(b.m, br.target, b.msg)
      ELSE LET x == connected_window_exists(m)
           IN  IF ~x.found THEN
                 LET b == build_list_message(disconnect(x.m))
                 IN  botSendMessage(b.m, br.target, <<"Window closed.">> \o b.msg)
               ELSE CmdSendKeys(x.m, br, e)

\* handle_request(db, br), between pthread_mutex_lock and
\* pthread_mutex_unlock: the globals it leaves, with the calls it made.
\* e is what the environment decides during the request: the clock (now),
\* the outcome of an atoi overflow (ub), whether a capture succeeds (cap),
\* and the screen after the keys were typed (screen2).
handle_request(m, br, weak, e) ==
  LET m1 == PinOwner(m, br)
  IN  IF ~FromOwner(br, m1.owner_id) THEN m1
      ELSE LET g == Gate(m1, br, weak, e.now)
           IN  IF g.done THEN g.m ELSE Dispatch(g.m, br, e)


(***************************************************************************)
(* The requests the transport may deliver, and the actions.                *)
(***************************************************************************)
\* Texts a sender may type.
GateTexts ==
  {
   <<46, 108, 105, 115, 116>>,                                      \* .list
   <<46, 104, 101, 108, 112>>,                                      \* .help
   <<46, 111, 116, 112, 116, 105, 109, 101, 111, 117, 116, 32, 53>>, \* .otptimeout 5
   <<46, 49>>,                                                      \* .1
   <<108, 115>>,                                                    \* ls
   <<49, 50, 97, 52, 53, 54>>,                                      \* 12a456
   <<48, 48, 48, 48, 48, 48>>                                       \* 000000
  }

OwnerTexts ==
  {
   <<46, 108, 105, 115, 116>>,                                      \* .list
   <<46, 49>>,                                                      \* .1
   <<108, 115>>,                                                    \* ls
   <<48, 48, 48, 48, 48, 48>>                                       \* 000000
  }

TimeoutTexts ==
  {
   <<46, 111, 116, 112, 116, 105, 109, 101, 111, 117, 116>>,        \* .otptimeout
   <<46, 111, 116, 112, 116, 105, 109, 101, 111, 117, 116, 32, 53>>, \* .otptimeout 5
   <<46, 111, 116, 112, 116, 105, 109, 101, 111, 117, 116, 32, 54, 48, 48>>, \* .otptimeout 600
   <<46, 111, 116, 112, 116, 105, 109, 101, 111, 117, 116, 32, 57, 57, 57, 57, 57, 57>>, \* .otptimeout 999999
   <<46, 111, 116, 112, 116, 105, 109, 101, 111, 117, 116, 32, 52, 50, 57, 52, 57, 54, 55, 50, 57, 54>>, \* .otptimeout 4294967296
   <<46, 79, 116, 112, 84, 105, 109, 101, 111, 117, 116, 32, 32, 45, 55>>, \* .OtpTimeout  -7
   <<46, 111, 116, 112, 116, 105, 109, 101, 111, 117, 116, 120>>,   \* .otptimeoutx
   <<46, 104, 101, 108, 112>>,                                      \* .help
   <<48, 48, 48, 48, 48, 48>>                                       \* 000000
  }

VerifyTexts ==
  {
   <<48, 48, 48, 48, 48, 48>>,                                      \* 000000
   <<57, 57, 57, 57, 57, 57>>,                                      \* 999999
   <<49, 50, 97, 52, 53, 54>>                                       \* 12a456
  }

ThreadTexts ==
  {
   <<46, 49>>,                                                      \* .1
   <<108, 115>>                                                     \* ls
  }

WindowTexts ==
  {
   <<46, 108, 105, 115, 116>>,                                      \* .list
   <<46, 76, 105, 83, 116>>,                                        \* .LiSt
   <<46, 104, 101, 108, 112>>,                                      \* .help
   <<46, 111, 116, 112, 116, 105, 109, 101, 111, 117, 116, 32, 53>>, \* .otptimeout 5
   <<46, 48>>,                                                      \* .0
   <<46, 49>>,                                                      \* .1
   <<46, 50>>,                                                      \* .2
   <<46, 51>>,                                                      \* .3
   <<46, 52, 50, 57, 52, 57, 54, 55, 50, 57, 55>>,                  \* .4294967297
   <<108, 115>>,                                                    \* ls
   <<104, 240, 159, 146, 156>>                                      \* h + purple heart
  }

\* Texts typed into a window: .1 and .2 connect, the others are each piece
\* a text is made of, a letter after a red heart, a letter before a purple
\* heart, and a yellow heart after a red one.
TypingTexts ==
  {<<46, 49>>, <<46, 50>>}
  \cup KeyTokens
  \cup {RedHeart \o <<97>>, <<97>> \o PurpleHeart, RedHeart \o YellowHeart}

\* Texts that begin as the commands do, in either case and with something
\* after them, next to .1 and .2, which connect, and ls, which is typed.
DispatchTexts ==
  {
   <<46, 49>>,                                                      \* .1
   <<46, 50>>,                                                      \* .2
   <<108, 115>>,                                                    \* ls
   <<46, 108, 105, 115, 116>>,                                      \* .list
   <<46, 76, 105, 83, 116>>,                                        \* .LiSt
   <<46, 72, 69, 76, 80>>,                                          \* .HELP
   <<46, 111, 116, 112, 116, 105, 109, 101, 111, 117, 116>>,        \* .otptimeout
   <<46, 79, 116, 112, 84, 105, 109, 101, 111, 117, 116, 108, 115>>, \* .OtpTimeoutls
   <<46, 49, 108, 115>>,                                            \* .1ls
   <<46, 48, 108, 115>>                                             \* .0ls
  }

\* Texts sent again and again to the gate: a code no time step has here,
\* and the command that makes the session as short as it can be.
ReplayTexts ==
  {
   <<48, 48, 48, 48, 48, 48>>,                                      \* 000000
   <<46, 111, 116, 112, 116, 105, 109, 101, 111, 117, 116, 32, 53>> \* .otptimeout 5
  }

Texts == CASE scope = "gate" -> GateTexts
           [] scope = "replay" -> ReplayTexts
           [] scope = "dispatch" -> DispatchTexts
           [] scope = "windows" -> WindowTexts
           [] scope = "typing" -> TypingTexts
           [] scope = "threads" -> ThreadTexts
           [] scope = "owner" -> OwnerTexts
           [] scope = "verify" -> VerifyTexts
           [] OTHER -> TimeoutTexts

\* br->from.  botlib gives 0 for an update that names no sender.
Senders == CASE scope \in {"gate", "threads"} -> {1, 2}
             [] scope = "verify" -> {1}
             [] scope = "owner" -> {0, 1, 2}
             [] OTHER -> {1}

\* How far the clock may advance at once, and how many times.
Ticks == CASE scope = "gate" -> {300, 301}
           [] scope = "verify" -> {10, 290}
           [] scope = "replay" -> {31}
           [] OTHER -> {301}
TickBudget == IF scope \in {"gate", "verify", "replay"} THEN MaxTicks ELSE 1

\* The time steps, relative to the clock's, whose codes a sender may type.
CodeOffsets == IF scope \in {"gate", "verify"} THEN -2..2
               ELSE IF scope = "replay" THEN -1..1
               ELSE {0}

\* The six digits an authenticator shows for a code.
RECURSIVE PadLeft(_, _)
PadLeft(s, n) == IF Len(s) >= n THEN s ELSE PadLeft(<<48>> \o s, n)
CodeText(code) == PadLeft(DecDigits(code), OtpDigits)

\* The codes of the time steps around the clock, for the stored secret: what
\* a sender who holds the secret may type.
CodeTexts ==
  IF db.totp_secret = Null THEN {}
  ELSE {CodeText(totp_code(hex_to_bytes(db.totp_secret, SecretLen),
                           (now \div TimeStepSeconds) + k)) : k \in CodeOffsets}

\* br->msg_id of a callback: the message whose button was pressed.
MsgIds == IF scope = "gate" THEN {7, 8} ELSE {7}

\* br->callback_data of a callback: the data of the Refresh button, or of a
\* button whose data differs from it in case.
CallbackData == {REFRESH_DATA, "Refresh"}

\* BotRequest: a text message or a callback (a button press).  In a private
\* chat the target is the sender's chat.
Requests ==
  [from : Senders, is_callback : {FALSE}, request : Texts \cup CodeTexts,
   callback_data : {""}, callback_id : {0}, msg_id : {0}, target : {0}]
  \cup
  [from : Senders, is_callback : {TRUE}, request : {<<>>},
   callback_data : CallbackData, callback_id : {900}, msg_id : MsgIds,
   target : {0}]

\* What the environment may decide during the request br.  A choice that the
\* request cannot observe is not enumerated: an atoi overflow needs ten
\* digits, a capture or a changed screen needs a connection or a .N.
Envs(br) ==
  [now : {now},
   ub : IF Len(br.request) >= 10 THEN {"wrap", "sat"} ELSE {"wrap"},
   cap : IF Connected \/ At(br.request, 1) = 46 THEN BOOLEAN ELSE {TRUE},
   screen2 : IF Connected /\ ~br.is_callback THEN ScreensOf(scope)
             ELSE {screen}]

\* How many kvSet calls of ops wrote the owner key.
RECURSIVE OwnerWritesIn(_)
OwnerWritesIn(ops) ==
  IF ops = <<>> THEN 0
  ELSE (IF Head(ops).op = "kvSet" /\ Head(ops).arg[1] = "owner_id" THEN 1 ELSE 0)
       + OwnerWritesIn(Tail(ops))

Min(a, b) == IF a < b THEN a ELSE b

\* Lines 481-497: the request br, found with the globals m, is a text of
\* the owner that the gate takes for a code.
IsAttempt(m, br, weak, t) ==
  /\ FromOwner(br, PinOwner(m, br).owner_id)
  /\ ~weak /\ NeedsOtp(m, t) /\ ~br.is_callback

\* The attempts made, with this request when it is one and is remembered.
Attempted(m, br, weak, t, r) ==
  IF scope = "replay" /\ IsAttempt(m, br, weak, t)
  THEN Append(attempts, [text |-> br.request, now |-> t, ok |-> r.Authenticated])
  ELSE attempts

\* One request, handled from lock to unlock.
HandleRequest ==
  /\ phase = "run"
  /\ ~last.active
  /\ \E br \in Requests :
       \E e \in Envs(br) :
         /\ \/ Len(attempts) < MaxAttempts
            \/ ~IsAttempt(Globals, br, WeakSecurity, now)
         /\ \E r \in {handle_request(Globals, [br EXCEPT !.target = br.from],
                                      WeakSecurity, e)} :
                /\ db' = r.db
                /\ Authenticated' = r.Authenticated
                /\ LastActivity' = r.LastActivity
                /\ OtpTimeout' = r.OtpTimeout
                /\ Connected' = r.Connected
                /\ ConnectedWid' = r.ConnectedWid
                /\ ConnectedPid' = r.ConnectedPid
                /\ ConnectedOwner' = r.ConnectedOwner
                /\ ConnectedTitle' = r.ConnectedTitle
                /\ WindowList' = r.WindowList
                /\ screen' = r.screen
                /\ last' = [active |-> TRUE, br |-> [br EXCEPT !.target = br.from],
                            weak |-> WeakSecurity, now |-> now,
                            pre |-> Globals, ops |-> r.ops]
                /\ firstSender' = IF firstSender = -1 THEN br.from ELSE firstSender
                /\ ownerWrites' = Min(MaxOwnerWrites,
                                      ownerWrites + OwnerWritesIn(r.ops))
                /\ attempts' = Attempted(Globals, br, WeakSecurity, now, r)
  /\ UNCHANGED <<scope, phase, WeakSecurity, now, ticks>>
  /\ UNCHANGED tvars
  /\ UNCHANGED kvars

\* The clock advances between two requests.
Tick ==
  /\ phase = "run"
  /\ ~last.active
  /\ ticks < TickBudget
  /\ \E d \in Ticks : now' = now + d
  /\ ticks' = ticks + 1
  /\ UNCHANGED <<scope, phase, db, WeakSecurity, Authenticated, LastActivity,
                 OtpTimeout, Connected, ConnectedWid, ConnectedPid,
                 ConnectedOwner, ConnectedTitle, WindowList, screen, last,
                 firstSender, ownerWrites>>
  /\ UNCHANGED tvars
  /\ UNCHANGED kvars
  /\ UNCHANGED attempts

\* Windows open and close between two requests.
ScreenChange ==
  /\ phase = "run"
  /\ ~last.active
  /\ \E s \in ScreensOf(scope) \ {screen} : screen' = s
  /\ UNCHANGED <<scope, phase, db, WeakSecurity, Authenticated, LastActivity,
                 OtpTimeout, Connected, ConnectedWid, ConnectedPid,
                 ConnectedOwner, ConnectedTitle, WindowList, now, ticks, last,
                 firstSender, ownerWrites>>
  /\ UNCHANGED tvars
  /\ UNCHANGED kvars
  /\ UNCHANGED attempts

\* The record of the request just handled is dropped; the program's state is
\* as the request left it.
Forget ==
  /\ last.active
  /\ last' = Idle
  /\ UNCHANGED <<scope, phase, db, WeakSecurity, Authenticated, LastActivity,
                 OtpTimeout, Connected, ConnectedWid, ConnectedPid,
                 ConnectedOwner, ConnectedTitle, WindowList, now, screen,
                 ticks, firstSender, ownerWrites>>
  /\ UNCHANGED tvars
  /\ UNCHANGED kvars
  /\ UNCHANGED attempts

Next == Startup \/ HandleRequest \/ Forget \/ Tick \/ ScreenChange

\* The gate's inputs: two senders, codes around the clock, two clock steps.
Spec == Init /\ [][Next]_vars
\* The owner's inputs: three senders, the sender 0 among them.
SpecOwner == InitOwner /\ [][Next]_vars
\* The timeout's inputs: the stored timeouts and the .otptimeout arguments.
SpecTimeout == InitTimeout /\ [][Next]_vars
\* The verification's inputs: the codes of the time steps around the clock.
SpecVerify == InitVerify /\ [][Next]_vars
\* The windows' inputs: sibling windows, two processes, the window commands.
SpecWindows == InitWindows /\ [][Next]_vars
\* The typing inputs: two processes, texts of glyphs, escapes and letters.
SpecTyping == InitTyping /\ [][Next]_vars
SpecDispatch == InitDispatch /\ [][Next]_vars
\* The inputs of repeated authentication: codes sent again after the
\* shortest session has expired, and wrong codes before right ones.
SpecReplay == InitReplay /\ [][Next]_vars

\* The keystroke encoder alone: it is given the text drawn at the start, and
\* the keys it makes of it are kept.
Encode ==
  /\ scope = "keys"
  /\ ~sent.done
  /\ sent' = [done |-> TRUE, keys |-> KeysOf(typed)]
  /\ UNCHANGED <<scope, phase, db, WeakSecurity, Authenticated, LastActivity,
                 OtpTimeout, Connected, ConnectedWid, ConnectedPid,
                 ConnectedOwner, ConnectedTitle, WindowList, now, screen,
                 ticks, last, firstSender, ownerWrites, typed, attempts>>
  /\ UNCHANGED tvars

NextKeys == Encode

\* The encoder's inputs: every text of at most MaxKeyTokens pieces.
SpecKeys == InitKeys /\ [][NextKeys]_vars


(***************************************************************************)
(* Concurrent requests.  The transport runs handle_request on one thread   *)
(* per request; a thread goes through the function in steps, and steps of  *)
(* different threads interleave as the scheduler decides.                  *)
(***************************************************************************)
\* Between pthread_mutex_lock (line 463) and pthread_mutex_unlock (line 608).
CriticalPcs == {"pin", "filter", "gate", "dispatch", "unlock"}

\* What thread t reads: the globals, the calls made so far, its local.
ThreadView(t) == [Globals EXCEPT !.ops = calls, !.owner_id = towner[t]]

\* Thread t leaves the globals, the store and the calls as in r.
ThreadWrites(t, r) ==
  /\ db' = r.db
  /\ Authenticated' = r.Authenticated
  /\ LastActivity' = r.LastActivity
  /\ OtpTimeout' = r.OtpTimeout
  /\ Connected' = r.Connected
  /\ ConnectedWid' = r.ConnectedWid
  /\ ConnectedPid' = r.ConnectedPid
  /\ ConnectedOwner' = r.ConnectedOwner
  /\ ConnectedTitle' = r.ConnectedTitle
  /\ WindowList' = r.WindowList
  /\ screen' = r.screen
  /\ calls' = r.ops
  /\ towner' = [towner EXCEPT ![t] = r.owner_id]
  /\ cur' = [cur EXCEPT ![t] = SharedOf(r)]

\* What no step of a thread changes.
ThreadFrame == UNCHANGED <<scope, phase, WeakSecurity, now, ticks, last,
                           firstSender, ownerWrites, typed, sent, attempts>>
GlobalsFrame == UNCHANGED <<db, Authenticated, LastActivity, OtpTimeout,
                            Connected, ConnectedWid, ConnectedPid,
                            ConnectedOwner, ConnectedTitle, WindowList, screen>>

\* The transport starts a thread for a request.
Deliver(t) ==
  /\ phase = "run"
  /\ pc[t] = "start"
  /\ \E br \in Requests : treq' = [treq EXCEPT ![t] = [br EXCEPT !.target = br.from]]
  /\ pc' = [pc EXCEPT ![t] = "lock"]
  /\ ThreadFrame /\ GlobalsFrame
  /\ UNCHANGED <<lock, towner, calls, cur>>

\* Variant: the lock is granted even while another thread holds it.
LockGranted(holder) == TRUE

\* pthread_mutex_lock returns once no thread holds the mutex.
LockFree(holder) == holder = 0

\* Line 463: pthread_mutex_lock(&RequestLock).
Lock(t) ==
  /\ pc[t] = "lock"
  /\ LockFree(lock)
  /\ lock' = t
  /\ pc' = [pc EXCEPT ![t] = "pin"]
  /\ calls' = <<>>
  /\ cur' = [cur EXCEPT ![t] = SharedOf(Globals)]
  /\ ThreadFrame /\ GlobalsFrame
  /\ UNCHANGED <<treq, towner>>

\* Lines 465-479: the owner is read, and pinned if there is none.
Pin(t) ==
  /\ pc[t] = "pin"
  /\ ThreadWrites(t, PinOwner(ThreadView(t), treq[t]))
  /\ pc' = [pc EXCEPT ![t] = "filter"]
  /\ ThreadFrame
  /\ UNCHANGED <<lock, treq>>

\* Lines 481-484: a request of another sender goes to done.
Filter(t) ==
  /\ pc[t] = "filter"
  /\ pc' = [pc EXCEPT ![t] = IF FromOwner(treq[t], towner[t]) THEN "gate"
                              ELSE "unlock"]
  /\ ThreadFrame /\ GlobalsFrame
  /\ UNCHANGED <<lock, treq, towner, calls, cur>>

\* Lines 486-508: the access gate.
GateStep(t) ==
  /\ pc[t] = "gate"
  /\ \E g \in {Gate(ThreadView(t), treq[t], WeakSecurity, now)} :
       /\ ThreadWrites(t, g.m)
       /\ pc' = [pc EXCEPT ![t] = IF g.done THEN "unlock" ELSE "dispatch"]
  /\ ThreadFrame
  /\ UNCHANGED <<lock, treq>>

\* Lines 510-605: the command.
DispatchStep(t) ==
  /\ pc[t] = "dispatch"
  /\ \E e \in Envs(treq[t]) :
       ThreadWrites(t, Dispatch(ThreadView(t), treq[t], e))
  /\ pc' = [pc EXCEPT ![t] = "unlock"]
  /\ ThreadFrame
  /\ UNCHANGED <<lock, treq>>

\* Variant: the thread ends without releasing the lock.
UnlockKeeps(t) ==
  /\ pc[t] = "unlock"
  /\ pc' = [pc EXCEPT ![t] = "done"]
  /\ ThreadFrame /\ GlobalsFrame
  /\ UNCHANGED <<lock, treq, towner, calls, cur>>

\* Lines 607-608: pthread_mutex_unlock(&RequestLock); the thread ends.
Unlock(t) ==
  /\ pc[t] = "unlock"
  /\ lock' = 0
  /\ pc' = [pc EXCEPT ![t] = "done"]
  /\ ThreadFrame /\ GlobalsFrame
  /\ UNCHANGED <<treq, towner, calls, cur>>

NextThreads ==
  \/ Startup
  \/ ScreenChange
  \/ \E t \in Threads :
       \/ Deliver(t) \/ Lock(t) \/ Pin(t) \/ Filter(t)
       \/ GateStep(t) \/ DispatchStep(t) \/ Unlock(t)

SpecThreads == InitThreads /\ [][NextThreads]_vars

\* Thread t, inside handle_request, takes its next step: the call it is in
\* returns.  Between lock and unlock a thread's next step is always
\* possible, and it is the only step that moves the thread.
Advance(t) ==
  /\ pc[t] \in CriticalPcs
  /\ \E p \in CriticalPcs \cup {"done"} :
       p # pc[t] /\ pc' = [pc EXCEPT ![t] = p]

\* The same, when every call a thread makes returns and the mutex is fair
\* (a thread that can take the lock again and again does take it).
SpecThreadsFair ==
  /\ InitThreads /\ [][NextThreads]_vars
  /\ \A t \in Threads : WF_pc(Advance(t)) /\ SF_vars(Lock(t))


(***************************************************************************)
(* What the claims speak of.                                               *)
(***************************************************************************)
\* The request just handled, the state it found, and its calls.
Req == last.br
Pre == last.pre

\* The messaging and backend calls of the request, in order (the writes to
\* the store left out).
RECURSIVE Outward(_)
Outward(ops) ==
  IF ops = <<>> THEN <<>>
  ELSE IF Head(ops).op \in MessagingOps \cup BackendOps
       THEN <<Head(ops)>> \o Outward(Tail(ops))
       ELSE Outward(Tail(ops))

SentMessage(text) == [op |-> "botSendMessage", arg |-> <<Req.target>> \o text]
Acknowledged == [op |-> "botAnswerCallbackQuery", arg |-> <<Req.callback_id>>]

\* The identity the store holds, or 0 when it holds none.
PinnedOwner == IF db.owner_id = Null THEN 0 ELSE Strtoll(db.owner_id)

\* The request just handled came from the identity the store holds.
OwnerRequest == last.active /\ Req.from = PinnedOwner

\* The connection, as one tuple.
ConnectionOf(g) == <<g.Connected, g.ConnectedWid, g.ConnectedPid,
                     g.ConnectedOwner, g.ConnectedTitle>>

\* The request made a backend call or changed the connection, the cached
\* window list or the timeout (in memory or stored).
CommandEffect ==
  \/ \E i \in 1..Len(last.ops) : last.ops[i].op \in BackendOps
  \/ ConnectionOf(Globals) # ConnectionOf(Pre)
  \/ WindowList # Pre.WindowList
  \/ OtpTimeout # Pre.OtpTimeout
  \/ db.otp_timeout # Pre.db.otp_timeout

\* When the request arrived the session was authenticated and not expired.
SessionOpen ==
  Pre.Authenticated /\ last.now - Pre.LastActivity <= Pre.OtpTimeout

\* The three answers of the gate.
GateAnswers == {<<>>, <<Acknowledged>>, <<SentMessage(<<"Authenticated.">>)>>,
                <<SentMessage(<<"Enter OTP code.">>)>>}

\* The text is six ASCII digits, and its value as a decimal number.
SixDigits(text) == Len(text) = 6 /\ \A i \in 1..6 : text[i] \in 48..57
RECURSIVE DecimalValue(_)
DecimalValue(text) ==
  IF text = <<>> THEN 0
  ELSE DecimalValue(SubSeq(text, 1, Len(text) - 1)) * 10 + (text[Len(text)] - 48)

\* The 20 bytes whose hexadecimal form the store holds.
RawSecret == CHOOSE sec \in {S1, S2} : bytes_to_hex(sec) = db.totp_secret

\* The code text is the code of the time step of clock time t, of the step
\* before or of the step after.
CodeInWindow(text, t) ==
  \E k \in {-1, 0, 1} :
    DecimalValue(text) = totp_code(RawSecret, (t \div 30) + k)

C2_CommandsOnlyWhenOpen ==
  (last.active /\ ~last.weak) =>
     /\ CommandEffect => SessionOpen
     /\ ~SessionOpen => Outward(last.ops) \in GateAnswers

\* A .1 typed into an open session connected a window.
C2_Witness ==
  /\ last.active /\ ~last.weak /\ SessionOpen
  /\ ~Pre.Connected /\ Connected
  /\ \E i \in 1..Len(last.ops) : last.ops[i].op = "plat_raise_window"

(***************************************************************************)
(* C3.  With weak security off, Authenticated goes from false to true, and *)
(* an owner request that finds the session closed (never authenticated, or *)
(* expired) leaves it true, only if the request is the owner's text of     *)
(* exactly six ASCII digits whose value is the code of the current, the    *)
(* previous or the next time step; it then stamps LastActivity with the    *)
(* clock and is answered by "Authenticated." alone.  Every other text of   *)
(* the owner that finds the session closed is answered by "Enter OTP       *)
(* code." alone and leaves Authenticated false.                            *)
(***************************************************************************)
C3_AuthOnlyByCode ==
  (last.active /\ ~last.weak /\ ~SessionOpen) =>
     /\ (Authenticated /\ (OwnerRequest \/ ~Pre.Authenticated)) =>
          /\ OwnerRequest /\ ~Req.is_callback
          /\ SixDigits(Req.request) /\ CodeInWindow(Req.request, last.now)
          /\ LastActivity = last.now
          /\ Outward(last.ops) = <<SentMessage(<<"Authenticated.">>)>>
     /\ (OwnerRequest /\ ~Req.is_callback
         /\ ~(SixDigits(Req.request) /\ CodeInWindow(Req.request, last.now))) =>
          /\ ~Authenticated
          /\ Outward(last.ops) = <<SentMessage(<<"Enter OTP code.">>)>>

\* The first authentication: the flag was false and is true.
C3_Witness ==
  /\ last.active /\ ~last.weak /\ ~Pre.Authenticated /\ Authenticated
  /\ Outward(last.ops) = <<SentMessage(<<"Authenticated.">>)>>

(***************************************************************************)
(* C4.  With weak security off, an owner request that arrives more than    *)
(* OtpTimeout seconds (strictly) after LastActivity is handled as an OTP   *)
(* attempt only, whatever its text: it has no command effect, it gets one  *)
(* gate answer, and it leaves Authenticated true exactly if it is a valid  *)
(* code.  An owner request that finds the session authenticated and not    *)
(* expired is handled as a command and sets LastActivity to the clock.     *)
(***************************************************************************)
OtpReplies == {SentMessage(<<"Authenticated.">>), SentMessage(<<"Enter OTP code.">>)}

HandledAsCommand ==
  LET out == Outward(last.ops)
  IN  /\ out # <<>>
      /\ \A i \in 1..Len(out) : out[i] \notin OtpReplies
      /\ Req.request = DotHelp => out = <<SentMessage(<<"Commands:">>)>>
      /\ Req.request = DotList => ~Connected

C4_ExpiryForcesOtp ==
  (OwnerRequest /\ ~last.weak) =>
     /\ (last.now - Pre.LastActivity > Pre.OtpTimeout) =>
          /\ ~CommandEffect
          /\ Outward(last.ops) \in GateAnswers \ {<<>>}
          /\ Authenticated <=>
               (/\ ~Req.is_callback /\ SixDigits(Req.request)
                /\ CodeInWindow(Req.request, last.now))
     /\ SessionOpen =>
          /\ HandledAsCommand
          /\ Authenticated /\ LastActivity = last.now

\* A .list that arrives one second too late is asked for a code.
C4_Witness ==
  /\ OwnerRequest /\ ~last.weak /\ Pre.Authenticated
  /\ last.now - Pre.LastActivity = Pre.OtpTimeout + 1
  /\ Req.request = DotList
  /\ Outward(last.ops) = <<SentMessage(<<"Enter OTP code.">>)>>
  /\ ~Authenticated

C6_OwnerPinnedOnce ==
  /\ ownerWrites <= 1
  /\ firstSender # -1 => (db.owner_id # Null /\ PinnedOwner = firstSender)

(***************************************************************************)
(* C8.  For every text c of six ASCII digits, totp_verify accepts c at the *)
(* clock time now if and only if the decimal value of c is the code of the *)
(* stored secret for the time step now/30, the one before or the one       *)
(* after.                                                                  *)
(***************************************************************************)
\* The codes probed: those of the five time steps around the clock, and
\* two that belong to no step.
ProbeCodes == CodeTexts \cup {c \in VerifyTexts : SixDigits(c)}

C8_VerifyWindow ==
  (phase = "run" /\ db.totp_secret # Null) =>
     \A c \in ProbeCodes :
        SixDigits(c) /\ (totp_verify(db, c, now) <=> CodeInWindow(c, now))

\* A code with a leading zero, of the previous time step, was accepted.
C8_Witness ==
  /\ last.active /\ ~last.weak /\ ~Req.is_callback
  /\ SixDigits(Req.request) /\ Req.request[1] = 48
  /\ DecimalValue(Req.request) =
       totp_code(RawSecret, (last.now \div 30) - 1)
  /\ Outward(last.ops) = <<SentMessage(<<"Authenticated.">>)>>

(***************************************************************************)
(* C9.  As stated: an accepted .otptimeout command with argument n (a      *)
(* missing or non-numeric argument reads as 0) leaves min(max(n, 30),      *)
(* 28800) in OtpTimeout and in the store, and the reply names that value.  *)
(***************************************************************************)
\* The digits an argument starts with, after an optional sign.
RECURSIVE LeadingDigits(_)
LeadingDigits(a) ==
  IF a # <<>> /\ a[1] \in 48..57 THEN <<a[1]>> \o LeadingDigits(Tail(a)) ELSE <<>>

RECURSIVE StripZeros(_)
StripZeros(a) == IF a # <<>> /\ a[1] = 48 THEN StripZeros(Tail(a)) ELSE a

\* min(max(n, 30), 28800) for the integer n that the argument spells.
IntendedTimeout(arg) ==
  LET neg  == arg # <<>> /\ arg[1] = 45
      body == IF arg # <<>> /\ arg[1] \in {43, 45} THEN Tail(arg) ELSE arg
      ds   == StripZeros(LeadingDigits(body))
  IN  IF neg THEN 30
      ELSE IF Len(ds) > 5 THEN 28800
      ELSE IF DecimalValue(ds) < 30 THEN 30
      ELSE IF DecimalValue(ds) > 28800 THEN 28800
      ELSE DecimalValue(ds)

TimeoutCommand ==
  /\ OwnerRequest /\ ~Req.is_callback
  /\ ~last.weak /\ SessionOpen
  /\ StrncasecmpEq(Req.request, DotOtpTimeout, OtpTimeoutCmdLen)

C9_TimeoutClamped ==
  TimeoutCommand =>
     LET v == IntendedTimeout(OtpTimeoutArg(Req.request))
     IN  /\ OtpTimeout = v
         /\ db.otp_timeout = DecDigits(v)
         /\ Outward(last.ops) =
              <<SentMessage(<<"OTP timeout set to %d seconds.", v>>)>>

(***************************************************************************)
(* C10.  In every state OtpTimeout is at least 30 and at most 28800.  It   *)
(* is 300 until startup has read the store, and whenever it is not 300 it  *)
(* is the value the store holds.                                           *)
(***************************************************************************)
C10_TimeoutInRange ==
  /\ OtpTimeout >= 30 /\ OtpTimeout <= 28800
  /\ phase = "boot" => OtpTimeout = 300
  /\ OtpTimeout # 300 =>
       (db.otp_timeout # Null /\ DecimalValue(db.otp_timeout) = OtpTimeout)

\* A stored 28801 was not adopted at startup.
C10_Witness ==
  /\ phase = "run" /\ ~WeakSecurity
  /\ db.otp_timeout = <<50, 56, 56, 48, 49>>
  /\ OtpTimeout = 300

(***************************************************************************)
(* C7.  With requests delivered on concurrent threads, a thread that is    *)
(* between the lock and the unlock of handle_request holds RequestLock, so *)
(* at most one thread is there; and the globals, the store and the calls   *)
(* made are as that thread's own last step left them: no step of another   *)
(* request has read or written in between.                                 *)
(***************************************************************************)
C7_RequestsSerialized ==
  /\ Cardinality({t \in Threads : pc[t] \in CriticalPcs}) <= 1
  /\ \A t \in Threads :
       pc[t] \in CriticalPcs =>
          /\ lock = t
          /\ SharedOf([Globals EXCEPT !.ops = calls]) = cur[t]

\* A second request waits for the lock while the first is about to run its
\* command.
C7_Witness ==
  \E t, u \in Threads :
     /\ t # u
     /\ pc[t] = "dispatch" /\ lock = t
     /\ pc[u] = "lock"

(***************************************************************************)
(* What the claims about windows speak of.                                 *)
(***************************************************************************)
\* The owner's text, accepted as a command: the gate is open or off.
AcceptedText ==
  OwnerRequest /\ ~Req.is_callback /\ (last.weak \/ SessionOpen)

\* ... by an authenticated session.
AuthenticatedText ==
  OwnerRequest /\ ~Req.is_callback /\ ~last.weak /\ SessionOpen

\* The messaging calls of the request, in order.
RECURSIVE Messages(_)
Messages(ops) ==
  IF ops = <<>> THEN <<>>
  ELSE IF Head(ops).op \in MessagingOps
       THEN <<Head(ops)>> \o Messages(Tail(ops))
       ELSE Messages(Tail(ops))

\* The request made no call of these names.
NoCall(names) == \A i \in 1..Len(last.ops) : last.ops[i].op \notin names

\* The text is .N, and the digits of N without leading zeros.
IsDotN(text) == Len(text) >= 2 /\ text[1] = 46 /\ text[2] \in 48..57
DigitsOfN(text) == StripZeros(LeadingDigits(Tail(text)))

\* N is a number of one of count windows.
NInRange(text, count) ==
  /\ Len(DigitsOfN(text)) <= 5
  /\ DecimalValue(DigitsOfN(text)) >= 1
  /\ DecimalValue(DigitsOfN(text)) <= count

\* The text in lower case.
LowerText(text) ==
  [i \in 1..Len(text) |-> IF text[i] \in 65..90 THEN text[i] + 32 ELSE text[i]]

\* The text is none of the dot-commands.
FreeText(text) ==
  /\ text # <<>>
  /\ LowerText(text) \notin {DotList, DotHelp}
  /\ ~(Len(text) >= 11 /\ SubSeq(LowerText(text), 1, 11) = DotOtpTimeout)
  /\ ~IsDotN(text)

\* The listing of the windows ws, as build_list_message words it.
Listing(ws) ==
  IF ws = <<>> THEN <<"No terminal windows found.">>
  ELSE <<"Terminal windows:",
         [i \in 1..Len(ws) |-> <<i, ws[i].window_id, ws[i].owner, ws[i].title>>]>>

\* The calls of the backend, as the log records them.
ListCall == [op |-> "plat_list_windows", arg |-> <<>>]
RaiseCall(w_pid, w_id) == [op |-> "plat_raise_window", arg |-> <<w_pid, w_id>>]
CaptureCall(w_id, ok) == [op |-> "plat_capture_window", arg |-> <<w_id, ok>>]
ImageCall == [op |-> "botSendImageWithKeyboard", arg |-> <<Req.target>>]

(***************************************************************************)
(* C11.  As stated: an authenticated .N with N < 1 or N above the number   *)
(* of windows of the list refreshed in the request is answered by "Invalid *)
(* window number." alone, leaves the connection as it was, raises no       *)
(* window and captures and sends no screenshot.                            *)
(***************************************************************************)
C11_InvalidNumber ==
  (/\ AuthenticatedText /\ IsDotN(Req.request)
   /\ ~NInRange(Req.request, Len(Pre.screen))) =>
     /\ Messages(last.ops) = <<SentMessage(<<"Invalid window number.">>)>>
     /\ ConnectionOf(Globals) = ConnectionOf(Pre)
     /\ NoCall({"plat_raise_window", "plat_capture_window", "plat_send_key"})

(***************************************************************************)
(* C12.  An accepted .N with 1 <= N <= the number of windows of the list   *)
(* fetched in the request leaves the connection with the four fields of    *)
(* the N-th window of that list, whatever it was; the calls are, in order: *)
(* the list, the reply "Connected to ...", the raise, the capture, and the *)
(* image only if the capture succeeded.                                    *)
(***************************************************************************)
C12_ConnectInOrder ==
  (/\ AcceptedText /\ IsDotN(Req.request)
   /\ NInRange(Req.request, Len(Pre.screen))) =>
     LET w == Pre.screen[DecimalValue(DigitsOfN(Req.request))]
     IN  /\ WindowList = Pre.screen
         /\ ConnectionOf(Globals) = <<TRUE, w.window_id, w.pid, w.owner, w.title>>
         /\ \E ok \in BOOLEAN :
              Outward(last.ops) =
                <<ListCall,
                  SentMessage(<<"Connected to ", w.owner, w.title>>),
                  RaiseCall(w.pid, w.window_id),
                  CaptureCall(w.window_id, ok)>>
                \o (IF ok THEN <<ImageCall>> ELSE <<>>)

\* A .2 replaced the connection to the first window by one to the second,
\* and the capture failed.
C12_Witness ==
  /\ AcceptedText /\ Req.request = <<46, 50>>
  /\ Pre.Connected /\ Pre.ConnectedWid = W1.window_id
  /\ Connected /\ ConnectedWid = W3.window_id
  /\ NoCall({"botSendImageWithKeyboard"})

(***************************************************************************)
(* C13.  After an accepted .list, in any case of letters, the connection   *)
(* is absent whatever it was, the window list is the backend's, the one    *)
(* reply is the 1-based listing (or the no-windows message), and no key    *)
(* was sent.                                                               *)
(***************************************************************************)
C13_ListDisconnects ==
  (AcceptedText /\ LowerText(Req.request) = DotList) =>
     /\ ConnectionOf(Globals) = <<FALSE, 0, 0, "", "">>
     /\ WindowList = Pre.screen
     /\ Outward(last.ops) = <<ListCall, SentMessage(Listing(Pre.screen))>>

\* .LiSt, typed while connected, with two windows on screen.
C13_Witness ==
  /\ AcceptedText /\ Req.request = <<46, 76, 105, 83, 116>>
  /\ Pre.Connected /\ ~Connected
  /\ Len(WindowList) = 2

(***************************************************************************)
(* C14.  As stated: in every state the connection is fully absent, or it   *)
(* is present with its four fields those of one window descriptor.         *)
(***************************************************************************)
Descriptors == {W1, W2, W3}
Absent == <<FALSE, 0, 0, "", "">>

C14_AbsentOrOneDescriptor ==
  \/ ConnectionOf(Globals) = Absent
  \/ \E w \in Descriptors :
       ConnectionOf(Globals) = <<TRUE, w.window_id, w.pid, w.owner, w.title>>

(***************************************************************************)
(* C14, amended.  In every state the connection is fully absent, or it is  *)
(* present with the process, the owner label and the title of one window   *)
(* descriptor, and the window id of that descriptor or of another window   *)
(* of the same process (the id an existence check fell back to).           *)
(***************************************************************************)
C14_AbsentOrPopulated ==
  \/ ConnectionOf(Globals) = Absent
  \/ \E w \in Descriptors :
       /\ Connected
       /\ <<ConnectedPid, ConnectedOwner, ConnectedTitle>> = <<w.pid, w.owner, w.title>>
       /\ \E v \in Descriptors : v.pid = w.pid /\ ConnectedWid = v.window_id

\* The connection made to the first window now names its sibling, with the
\* first window's title.
C14_Witness ==
  /\ Connected /\ ConnectedWid = W2.window_id
  /\ ConnectedTitle = W1.title /\ ConnectedTitle # W2.title

(***************************************************************************)
(* C15.  As stated: the connection is absent at first; a request makes it  *)
(* present only if it is an accepted .N with N within the list, and makes  *)
(* it absent only if it is an accepted .list or an accepted free text that *)
(* finds the window gone and no other window of its process.               *)
(***************************************************************************)
\* No window of the screen ws is the connected one or one of its process.
GoneNoFallback(g, ws) ==
  \A i \in 1..Len(ws) :
     ws[i].window_id # g.ConnectedWid /\ ws[i].pid # g.ConnectedPid

C15_PresenceChanges ==
  /\ phase = "boot" => ~Connected
  /\ last.active =>
       /\ (~Pre.Connected /\ Connected) =>
            /\ AcceptedText /\ IsDotN(Req.request)
            /\ NInRange(Req.request, Len(Pre.screen))
       /\ (Pre.Connected /\ ~Connected) =>
            /\ AcceptedText
            /\ \/ LowerText(Req.request) = DotList
               \/ FreeText(Req.request) /\ GoneNoFallback(Pre, Pre.screen)

(***************************************************************************)
(* C16.  An accepted text that is no dot-command, received while the       *)
(* connection is absent, gets one reply, the listing of the freshly        *)
(* fetched window list; no key is sent, no window raised, no screenshot    *)
(* taken, and the connection stays absent.                                 *)
(***************************************************************************)
C16_FreeTextUnconnected ==
  (AcceptedText /\ FreeText(Req.request) /\ ~Pre.Connected) =>
     /\ Outward(last.ops) = <<ListCall, SentMessage(Listing(Pre.screen))>>
     /\ WindowList = Pre.screen
     /\ ConnectionOf(Globals) = Absent

\* ls, typed with no connection, after the screen changed since the last
\* listing.
C16_Witness ==
  /\ AcceptedText /\ Req.request = <<108, 115>> /\ ~Pre.Connected
  /\ Pre.WindowList # Pre.screen /\ Pre.screen # <<>>

(***************************************************************************)
(* C17.  An accepted free text, received while connected, whose existence  *)
(* check finds the window gone and no other window of its process, clears  *)
(* the connection and gets one reply, "Window closed." followed by a fresh *)
(* listing; no key of the text is sent.                                    *)
(***************************************************************************)
ExistsCall(w_id, found) == [op |-> "plat_window_exists", arg |-> <<w_id, found>>]

C17_WindowClosed ==
  (/\ AcceptedText /\ FreeText(Req.request) /\ Pre.Connected
   /\ GoneNoFallback(Pre, Pre.screen)) =>
     /\ ConnectionOf(Globals) = Absent
     /\ Outward(last.ops) =
          <<ExistsCall(Pre.ConnectedWid, FALSE), ListCall,
            SentMessage(<<"Window closed.">> \o Listing(Pre.screen))>>

\* The connected window was closed, a window of another process is left.
C17_Witness ==
  /\ AcceptedText /\ FreeText(Req.request) /\ Pre.Connected
  /\ GoneNoFallback(Pre, Pre.screen) /\ Pre.screen # <<>>
  /\ ~Connected

(***************************************************************************)
(* C18.  As stated: when an existence check of a request, the one made     *)
(* after the keys were sent included, finds the window gone with no        *)
(* fallback, the connection is absent when the request ends.               *)
(***************************************************************************)
C18_GoneMeansAbsent ==
  (/\ last.active
   /\ \E i \in 1..Len(last.ops) :
        last.ops[i].op = "plat_window_exists" /\ last.ops[i].arg[2] = FALSE)
  => ~Connected

(***************************************************************************)
(* C19.  An accepted free text, received while connected and with the      *)
(* window found, makes these calls in this order: the existence check, the *)
(* raise, every key of the text from left to right with the final Return   *)
(* when one is due, the second existence check, one capture, and the image *)
(* if the capture succeeded.  No capture precedes a key.                   *)
(***************************************************************************)
\* The keys of the free texts typed here: a plain text is typed character
\* by character and ended by Return; h followed by a purple heart is h.
KeyCall(special, ch) ==
  [op |-> "plat_send_key", arg |-> <<ConnectedPid, special, ch, 0>>]
ExpectedKeys(text) ==
  IF text = <<104, 240, 159, 146, 156>> THEN <<KeyCall(0, 104)>>
  ELSE [i \in 1..Len(text) |-> KeyCall(0, text[i])] \o <<KeyCall(1, 0)>>

C19_KeysThenShot ==
  (/\ AcceptedText /\ FreeText(Req.request) /\ Pre.Connected
   /\ ~GoneNoFallback(Pre, Pre.screen)) =>
     LET out == Outward(last.ops)
         n   == Len(ExpectedKeys(Req.request))
     IN  /\ Len(out) >= n + 4
         /\ out[1].op = "plat_window_exists" /\ out[1].arg[2] = TRUE
         /\ out[2].op = "plat_raise_window"
         /\ SubSeq(out, 3, n + 2) = ExpectedKeys(Req.request)
         /\ out[n + 3].op = "plat_window_exists"
         /\ out[n + 4].op = "plat_capture_window"
         /\ SubSeq(out, n + 5, Len(out)) =
              (IF out[n + 4].arg[2] THEN <<ImageCall>> ELSE <<>>)

\* ls was typed into the window and the screenshot was sent.
C19_Witness ==
  /\ AcceptedText /\ Req.request = <<108, 115>> /\ Pre.Connected
  /\ Len(Outward(last.ops)) = 8
  /\ Outward(last.ops)[8] = ImageCall

(***************************************************************************)
(* C20.  As stated: every request of the pinned owner makes at least one   *)
(* messaging call (a text, an image, an image edit or a callback answer).  *)
(***************************************************************************)
C20_AlwaysFeedback ==
  OwnerRequest => Messages(last.ops) # <<>>

(***************************************************************************)
(* What the claims about callbacks and weak security speak of.             *)
(***************************************************************************)
\* The owner pressed a button while, with weak security off, the session
\* was not authenticated or had timed out.
CallbackAtClosedGate ==
  OwnerRequest /\ Req.is_callback /\ ~last.weak /\ ~SessionOpen

\* The owner pressed a button and the gate let it through.
CallbackPastGate ==
  OwnerRequest /\ Req.is_callback /\ (last.weak \/ SessionOpen)

\* The edit of the message whose button was pressed.
EditCall ==
  [op |-> "botEditMessageMedia", arg |-> <<Req.target, Req.msg_id>>]

\* How many calls of ops have the name op.
RECURSIVE CountCalls(_, _)
CountCalls(ops, op) ==
  IF ops = <<>> THEN 0
  ELSE (IF Head(ops).op = op THEN 1 ELSE 0) + CountCalls(Tail(ops), op)

(***************************************************************************)
(* C21.  With weak security off, a callback of the owner that finds the    *)
(* session unauthenticated or timed out is answered exactly once and does  *)
(* nothing else, whatever its data: Authenticated is false afterwards,     *)
(* LastActivity is as before, there is no capture, no image edit and no    *)
(* OTP prompt.                                                             *)
(***************************************************************************)
C21_CallbackNeverAuthenticates ==
  CallbackAtClosedGate =>
     /\ CountCalls(last.ops, "botAnswerCallbackQuery") = 1
     /\ Outward(last.ops) = <<Acknowledged>>
     /\ ~Authenticated
     /\ LastActivity = Pre.LastActivity
     /\ NoCall({"plat_capture_window", "botEditMessageMedia", "botSendMessage"})

\* The refresh button is pressed after the session of a connected owner
\* timed out.
C21_Witness ==
  /\ CallbackAtClosedGate
  /\ Pre.Authenticated /\ Pre.Connected
  /\ Req.callback_data = REFRESH_DATA
  /\ Outward(last.ops) = <<Acknowledged>>

(***************************************************************************)
(* C22.  A callback that passes the gate is answered exactly once, first.  *)
(* When its data is exactly "refresh" and a window is connected, one       *)
(* capture of that window follows, and, if it succeeded, one edit of the   *)
(* message the callback names; otherwise nothing follows.  No key is sent, *)
(* and the connection, the cached window list and the timeout (in memory   *)
(* and stored) are as before.                                              *)
(***************************************************************************)
C22_CallbackRefreshOnly ==
  CallbackPastGate =>
     LET out == Outward(last.ops)
     IN  /\ CountCalls(last.ops, "botAnswerCallbackQuery") = 1
         /\ out # <<>> /\ out[1] = Acknowledged
         /\ IF Req.callback_data = "refresh" /\ Pre.Connected
            THEN \/ out = <<Acknowledged, CaptureCall(Pre.ConnectedWid, TRUE),
                            EditCall>>
                 \/ out = <<Acknowledged, CaptureCall(Pre.ConnectedWid, FALSE)>>
            ELSE out = <<Acknowledged>>
         /\ NoCall({"plat_send_key", "plat_raise_window"})
         /\ ConnectionOf(Globals) = ConnectionOf(Pre)
         /\ WindowList = Pre.WindowList
         /\ OtpTimeout = Pre.OtpTimeout
         /\ db.otp_timeout = Pre.db.otp_timeout

\* The refresh button of message 8 is pressed in an authenticated session
\* with a window connected, and message 8 is edited.
C22_Witness ==
  /\ CallbackPastGate /\ ~last.weak
  /\ Req.callback_data = REFRESH_DATA /\ Req.msg_id = 8
  /\ Pre.Connected
  /\ Outward(last.ops)[Len(Outward(last.ops))] = EditCall

(***************************************************************************)
(* C23.  With weak security on, a request of the pinned owner is handled   *)
(* as a command whatever Authenticated, LastActivity and OtpTimeout are:   *)
(* it is never answered by "Enter OTP code." or "Authenticated.", a text   *)
(* of six digits included, and Authenticated and LastActivity are as       *)
(* before.  A request of anybody else makes no call and changes nothing.   *)
(***************************************************************************)
C23_WeakSecurityBypass ==
  (last.active /\ last.weak) =>
     /\ Authenticated = Pre.Authenticated
     /\ LastActivity = Pre.LastActivity
     /\ \A i \in 1..Len(last.ops) : last.ops[i] \notin OtpReplies
     /\ (OwnerRequest /\ ~Req.is_callback) => HandledAsCommand
     /\ (OwnerRequest /\ Req.is_callback) => Outward(last.ops)[1] = Acknowledged
     /\ (OwnerRequest /\ SixDigits(Req.request) /\ ~Pre.Connected) =>
          Outward(last.ops) = <<ListCall, SentMessage(Listing(WindowList))>>
     /\ ~OwnerRequest =>
          /\ Outward(last.ops) = <<>>
          /\ Globals = Pre

\* With weak security on, the code of the current time step is typed while
\* no window is connected: it is answered by the list of windows.
C23_Witness ==
  /\ last.active /\ last.weak /\ OwnerRequest
  /\ db.totp_secret # Null
  /\ SixDigits(Req.request) /\ CodeInWindow(Req.request, last.now)
  /\ ~Pre.Connected
  /\ Outward(last.ops) = <<ListCall, SentMessage(Listing(WindowList))>>

(***************************************************************************)
(* C29.  As stated: once an owner is stored, a request of any other sender *)
(* changes nothing: Authenticated, LastActivity, OtpTimeout, the           *)
(* connection, the cached window list and the store, the stored owner      *)
(* included, are as before.                                                *)
(***************************************************************************)
\* The request found an owner stored, and its sender is another identity.
StrangerRequest ==
  /\ last.active
  /\ Pre.db.owner_id # Null
  /\ Req.from # Strtoll(Pre.db.owner_id)

C29_StrangerChangesNothing ==
  StrangerRequest => Globals = Pre

(***************************************************************************)
(* C30.  A thread holds the request lock exactly while it is between       *)
(* pthread_mutex_lock and pthread_mutex_unlock; it ends only by the step   *)
(* that releases the lock it holds, whichever path it took (dropped, OTP,  *)
(* callback, command); and, every call returning and the lock being fair,  *)
(* every thread that waits for the lock ends, the lock released.           *)
(***************************************************************************)
C30_LockReleased ==
  /\ [](\A t \in Threads : (lock = t) <=> (pc[t] \in CriticalPcs))
  /\ [][\A t \in Threads :
          (pc[t] # "done" /\ pc'[t] = "done") =>
             (pc[t] = "unlock" /\ lock = t /\ lock' = 0)]_vars
  /\ \A t \in Threads : (pc[t] = "lock") ~> (pc[t] = "done" /\ lock # t)

\* Two requests have ended and the lock is free: one was dropped at the
\* owner filter, the other made calls.
C30_Witness ==
  /\ lock = 0
  /\ \A t \in Threads : pc[t] = "done"
  /\ \E t \in Threads : treq[t].from # towner[t]
  /\ \E t \in Threads : cur[t].ops # <<>>

(***************************************************************************)
(* What the claims about the keystroke encoder speak of.  A text is read   *)
(* from left to right as a sequence of pieces: a modifier glyph (Ctrl,     *)
(* Alt, Cmd), the Escape-now glyph, the Enter-now glyph, one of the        *)
(* two-character sequences \n, \t and \\, or a single byte.  A piece that  *)
(* is not a modifier glyph emits one event.                                *)
(***************************************************************************)
\* The text ends with the suppress-newline marker, and the length of what
\* is scanned: the text without the marker.
Marked(text) ==
  Len(text) >= 4 /\ SubSeq(text, Len(text) - 3, Len(text)) = PurpleHeart
ScannedLen(text) == IF Marked(text) THEN Len(text) - 4 ELSE Len(text)

\* The bytes of pat stand at position i of the first n bytes of text.
StandsAt(text, i, n, pat) ==
  i + Len(pat) - 1 <= n /\ SubSeq(text, i, i + Len(pat) - 1) = pat

\* The piece that starts at position i.
PieceAt(text, i, n) ==
  IF StandsAt(text, i, n, RedHeartVS) THEN [kind |-> "ctrl", len |-> 6]
  ELSE IF StandsAt(text, i, n, RedHeart) THEN [kind |-> "ctrl", len |-> 3]
  ELSE IF StandsAt(text, i, n, BlueHeart) THEN [kind |-> "alt", len |-> 4]
  ELSE IF StandsAt(text, i, n, GreenHeart) THEN [kind |-> "cmd", len |-> 4]
  ELSE IF StandsAt(text, i, n, YellowHeart) THEN [kind |-> "esc", len |-> 4]
  ELSE IF StandsAt(text, i, n, OrangeHeart) THEN [kind |-> "enter", len |-> 4]
  ELSE IF StandsAt(text, i, n, <<92, 110>>) THEN [kind |-> "nl", len |-> 2]
  ELSE IF StandsAt(text, i, n, <<92, 116>>) THEN [kind |-> "tab", len |-> 2]
  ELSE IF StandsAt(text, i, n, <<92, 92>>) THEN [kind |-> "bslash", len |-> 2]
  ELSE [kind |-> "byte", len |-> 1]

ModifierKinds == {"ctrl", "alt", "cmd"}

\* The emissions the pieces from position i on call for, in order: the kind
\* of the piece, where it stands, and the modifier glyphs seen since the
\* emission before it (pending).
RECURSIVE EmissionsFrom(_, _, _, _)
EmissionsFrom(text, i, n, pending) ==
  IF i > n THEN <<>>
  ELSE LET piece == PieceAt(text, i, n)
       IN  IF piece.kind \in ModifierKinds
           THEN EmissionsFrom(text, i + piece.len, n, pending \cup {piece.kind})
           ELSE <<[kind |-> piece.kind, at |-> i, mods |-> pending]>>
                  \o EmissionsFrom(text, i + piece.len, n, {})

Emissions(text) == EmissionsFrom(text, 1, ScannedLen(text), {})

\* A set of modifiers as the flags of platform.h.
Flags(mods) ==
  (IF "ctrl" \in mods THEN MOD_CTRL ELSE 0) + (IF "alt" \in mods THEN MOD_ALT ELSE 0)
    + (IF "cmd" \in mods THEN MOD_CMD ELSE 0)

\* The key and the character an emission of this kind is.
SpecialOf(kind) ==
  CASE kind \in {"nl", "enter"} -> PLAT_KEY_RETURN
    [] kind = "tab" -> PLAT_KEY_TAB
    [] kind = "esc" -> PLAT_KEY_ESCAPE
    [] OTHER -> PLAT_KEY_CHAR
CharOf(text, e) ==
  CASE e.kind = "byte" -> text[e.at]
    [] e.kind = "bslash" -> 92
    [] OTHER -> 0

\* The event an emission is, with the modifiers pending before it.
EventOf(text, e) ==
  [special |-> SpecialOf(e.kind), ch |-> CharOf(text, e), mods |-> Flags(e.mods)]

\* The unmodified Return.
PlainReturn == [special |-> PLAT_KEY_RETURN, ch |-> 0, mods |-> 0]

\* The encoder has run on the text: the events it sent, and whether it
\* sent one more than the pieces of the text emit.
Encoded == sent.done
Scan == Emissions(typed)
ReturnAppended == Len(sent.keys) = Len(Scan) + 1

(***************************************************************************)
(* C24.  As stated: the scan sends one event per emitting piece, and after *)
(* it exactly one unmodified Return is appended, except when the text ends *)
(* with the marker glyph, when exactly one event was emitted and it        *)
(* carried a modifier, or when the last emitted event was a Return.        *)
(***************************************************************************)
C24_TrailingReturn ==
  Encoded =>
     LET n == Len(Scan)
         K == sent.keys
     IN  /\ Len(K) \in {n, n + 1}
         /\ ReturnAppended => K[n + 1] = PlainReturn
         /\ ReturnAppended <=>
              ~(\/ Marked(typed)
                \/ (n = 1 /\ K[1].mods # 0)
                \/ (n >= 1 /\ K[n].special = PLAT_KEY_RETURN))

(***************************************************************************)
(* C25.  As stated: every Escape-now glyph emits one Escape event that     *)
(* carries the modifiers pending before it, the event after it carries     *)
(* only the modifiers seen since, and a text that is the Escape-now glyph  *)
(* alone is followed by the automatic Return.                              *)
(***************************************************************************)
C25_EscapeNow ==
  Encoded =>
     LET n == Len(Scan)
         K == sent.keys
     IN  /\ Len(K) >= n
         /\ \A j \in 1..n :
              Scan[j].kind = "esc" =>
                /\ K[j] = EventOf(typed, Scan[j])
                /\ j < n => K[j + 1].mods = Flags(Scan[j + 1].mods)
         /\ typed = YellowHeart => K = <<EventOf(typed, Scan[1]), PlainReturn>>

(***************************************************************************)
(* C26.  Every Char, Tab and Return event of the scan carries exactly the  *)
(* modifier glyphs seen since the event before it, so that several glyphs  *)
(* combine, a repeated glyph adds nothing and nothing is pending after an  *)
(* emission; the modifier glyphs emit nothing themselves; modifiers still  *)
(* pending at the end attach to nothing, the appended Return carrying no   *)
(* modifier.                                                               *)
(***************************************************************************)
C26_ModifiersAttach ==
  Encoded =>
     LET n == Len(Scan)
         K == sent.keys
     IN  /\ Len(K) \in {n, n + 1}
         /\ \A j \in 1..n :
              /\ K[j].special = SpecialOf(Scan[j].kind)
              /\ Scan[j].kind # "esc" => K[j].mods = Flags(Scan[j].mods)
         /\ ReturnAppended => K[n + 1].mods = 0

\* Ctrl and Alt before a letter: one event, the letter with both.
C26_Witness ==
  /\ Encoded
  /\ typed = RedHeart \o BlueHeart \o <<97>>
  /\ sent.keys = <<[special |-> PLAT_KEY_CHAR, ch |-> 97,
                    mods |-> MOD_CTRL + MOD_ALT]>>

(***************************************************************************)
(* C27.  \n, \t and \\ each emit one event, Return, Tab and the character  *)
(* backslash, with the pending modifiers, and take both characters; a      *)
(* backslash before any other byte, or at the end of the scanned text,     *)
(* emits the character backslash and takes only itself, the byte after it  *)
(* being scanned on its own.                                               *)
(***************************************************************************)
C27_Escapes ==
  Encoded =>
     LET n == Len(Scan)
         K == sent.keys
     IN  /\ Len(K) >= n
         /\ \A j \in 1..n :
              /\ Scan[j].kind \in {"nl", "tab", "bslash"} =>
                   K[j] = EventOf(typed, Scan[j])
              /\ (Scan[j].kind = "byte" /\ typed[Scan[j].at] = 92) =>
                   /\ K[j] = [special |-> PLAT_KEY_CHAR, ch |-> 92,
                              mods |-> Flags(Scan[j].mods)]
                   /\ (j < n /\ Scan[j + 1].kind # "esc") =>
                        /\ Scan[j + 1].at > Scan[j].at
                        /\ K[j + 1].special = SpecialOf(Scan[j + 1].kind)
                        /\ K[j + 1].ch = CharOf(typed, Scan[j + 1])

\* a, backslash, a: the backslash and the second a are two characters, and
\* the Return is appended.
C27_Witness ==
  /\ Encoded
  /\ typed = <<97, 92, 97>>
  /\ sent.keys = <<[special |-> PLAT_KEY_CHAR, ch |-> 97, mods |-> 0],
                   [special |-> PLAT_KEY_CHAR, ch |-> 92, mods |-> 0],
                   [special |-> PLAT_KEY_CHAR, ch |-> 97, mods |-> 0],
                   PlainReturn>>

(***************************************************************************)
(* C28.  The encoding is total and depends only on the text: whenever a    *)
(* free text is typed into the connected window, in whatever session, at   *)
(* whatever time, into whichever window and after whatever requests, the   *)
(* events sent are those the encoder makes of the text alone, and they are *)
(* at most one more than the text has bytes.                               *)
(***************************************************************************)
\* The events of the plat_send_key calls of ops, in order.
RECURSIVE KeysSent(_)
KeysSent(ops) ==
  IF ops = <<>> THEN <<>>
  ELSE (IF Head(ops).op = "plat_send_key"
        THEN <<[special |-> Head(ops).arg[2], ch |-> Head(ops).arg[3],
                mods |-> Head(ops).arg[4]]>>
        ELSE <<>>) \o KeysSent(Tail(ops))

\* The owner's free text was typed into the connected window.
TypedIntoWindow ==
  /\ AcceptedText /\ FreeText(Req.request)
  /\ Pre.Connected /\ ~GoneNoFallback(Pre, Pre.screen)

CommandText(text) ==
  \/ LowerText(text) \in {DotList, DotHelp}
  \/ Len(text) >= 11 /\ SubSeq(LowerText(text), 1, 11) = DotOtpTimeout
  \/ IsDotN(text)

C31_CommandsNotTyped ==
  (last.active /\ ~Req.is_callback /\ CommandText(Req.request))
  => NoCall({"plat_send_key"})

\* .1ls was accepted while a window was connected and could be found: ls
\* in its place would have been typed.
C31_Witness ==
  /\ AcceptedText /\ Pre.Connected /\ ~GoneNoFallback(Pre, Pre.screen)
  /\ Req.request = <<46, 49, 108, 115>>
  /\ NoCall({"plat_send_key"})

(***************************************************************************)
(* C32.  The connection changes only inside a request.  A request that     *)
(* finds a connection and leaves one changes its process, owner label or   *)
(* title only if it is an accepted .N answered by "Connected to ...";      *)
(* otherwise it changes the window id only if it made an existence check   *)
(* on a window list without the original window, and then to a window of   *)
(* that list that belongs to the same process; a callback makes no         *)
(* existence check and leaves the window id as it was.                     *)
(***************************************************************************)
\* The request was a .N that connected.
ConnectedByDotN ==
  /\ AcceptedText /\ IsDotN(Req.request)
  /\ \E i \in 1..Len(last.ops) :
       last.ops[i] = SentMessage(<<"Connected to ", ConnectedOwner, ConnectedTitle>>)

\* The window list ws lacks the original window and holds the present one,
\* as a window of the original process.
RetargetedIn(ws) ==
  /\ \A i \in 1..Len(ws) : ws[i].window_id # Pre.ConnectedWid
  /\ \E i \in 1..Len(ws) :
       ws[i].window_id = ConnectedWid /\ ws[i].pid = Pre.ConnectedPid

\* The request found a connection and left one.
StaysConnected == last.active /\ Pre.Connected /\ Connected

C32_RequestKeepsTarget ==
  /\ (StaysConnected /\ ~ConnectedByDotN) =>
       /\ <<ConnectedPid, ConnectedOwner, ConnectedTitle>> =
            <<Pre.ConnectedPid, Pre.ConnectedOwner, Pre.ConnectedTitle>>
       /\ ConnectedWid # Pre.ConnectedWid =>
            /\ ~NoCall({"plat_window_exists"})
            /\ RetargetedIn(Pre.screen) \/ RetargetedIn(screen)
  /\ (last.active /\ Req.is_callback) =>
       /\ NoCall({"plat_window_exists"})
       /\ ConnectedWid = Pre.ConnectedWid

C32_ConnectionStable ==
  /\ []C32_RequestKeepsTarget
  /\ [][ConnectionOf(Globals)' # ConnectionOf(Globals) =>
         /\ last'.active
         /\ ConnectionOf(last'.pre) = ConnectionOf(Globals)]_vars

\* ls was typed for the first window of a process and went to its sibling:
\* the window id changed, the process, the label and the title did not.
C32_Witness ==
  /\ StaysConnected /\ ~ConnectedByDotN
  /\ Pre.ConnectedWid = W1.window_id /\ ConnectedWid = W2.window_id
  /\ ConnectedPid = W1.pid /\ ConnectedTitle = W1.title
  /\ ~NoCall({"plat_send_key"})

(***************************************************************************)
(* C33.  The gate remembers neither the codes it let in nor the attempts   *)
(* it turned away.  Of the texts sent to the closed gate, one that was let *)
(* in before is let in again whenever it is the code of the time step of   *)
(* the clock, of the step before or of the step after; and whatever was    *)
(* turned away before, a text is let in exactly when it is six digits and  *)
(* such a code.                                                            *)
(***************************************************************************)
\* The attempt is a code of the window of its clock.
RightCode(a) == SixDigits(a.text) /\ CodeInWindow(a.text, a.now)

\* How many of the first n attempts were turned away.
FailedAmong(n) == Cardinality({i \in 1..n : ~attempts[i].ok})

C33_NoCodeMemory ==
  \A j \in 1..Len(attempts) :
    LET a == attempts[j]
    IN  /\ (/\ \E i \in 1..(j - 1) :
                  attempts[i].ok /\ attempts[i].text = a.text
            /\ RightCode(a)) => a.ok
        /\ \A k \in 0..MaxAttempts :
             FailedAmong(j - 1) = k => (a.ok <=> RightCode(a))

\* A code was let in, the session expired, a wrong code was turned away,
\* and the first code was let in a second time, at a later clock.
C33_Witness ==
  /\ Len(attempts) = 3
  /\ attempts[1].ok /\ ~attempts[2].ok /\ attempts[3].ok
  /\ attempts[3].text = attempts[1].text
  /\ attempts[3].now > attempts[1].now
=============================================================================
